---- MODULE Spec2Model ----
(***************************************************************************)
(* A state-machine model of the PhiCraft bot: the command front end of     *)
(* node_bot/server.js, the BuildExecutor of utils/buildExecutor.js, the    *)
(* recipe-database crafter of actions/craft.js and the table-driven        *)
(* CraftingChain.  Every asynchronous handler of the JavaScript program is *)
(* a task whose program counter sits at the await it is suspended on; one  *)
(* action of the model is the code that runs between two suspensions.      *)
(***************************************************************************)
EXTENDS Integers, Sequences, FiniteSets, TLC

VARIABLES
  \* ---- node_bot/server.js -------------------------------------------------
  isProcessing,      \* server.js:35   let isProcessing = false
  currentBlueprint,  \* server.js:36   TRUE iff a blueprint is loaded
  buildExecutor,     \* server.js:37   TRUE iff the module-level executor exists
  tasks,             \* the running asynchronous handlers (commands)
  lastOut,           \* the last answer given: a bot.chat line or a returned message
  \* ---- utils/buildExecutor.js (fields of the module-level executor) -------
  aborted,           \* buildExecutor.js:20   this.aborted
  currentBuild,      \* buildExecutor.js:19   TRUE iff this.currentBuild is set
  currentPrompt,     \* buildExecutor.js:85   this.currentPrompt
  \* ---- actions/craft.js (recipe-database version) -------------------------
  recipes,           \* recipeManager.recipesByName, first recipe of each item
  inv,               \* bot.inventory, item -> count
  tableNear,         \* TRUE iff bot.findBlock finds a crafting table
  goal,              \* the top-level request: item, count, inventory at the call
  stack,             \* the activation records of craftItem
  acted,             \* TRUE once a craft, mine or placement call was made
  shortMined,        \* TRUE once mine() came back with less than asked for
  cstatus,           \* "idle", "run", "ok" or "error": the top-level call
  \* ---- CraftingChain (table-driven version) -------------------------------
  cinv,              \* bot.inventory as the chain reads it
  cstack,            \* the activation records of executeCraftingChain
  cresult,           \* "run", "ok" or "error"
  \* ---- SmeltingManager (utils/furnaceManager.js) --------------------------
  sinv,              \* bot.inventory as the smelter reads it
  coalNear,          \* TRUE iff bot.findBlock finds coal ore
  sstack,            \* the activation records of smeltItem
  sshort,            \* TRUE once a mine or craft call got less than asked
  sstatus,           \* "idle", "run", "ok" or "error": the top-level call
  \* ---- actions/mine.js -----------------------------------------------------
  minv,              \* the names of the items in bot.inventory
  mtask,             \* mine's blockType, count, loop index i and minedCount
  mpc,               \* where mine() stands: "idle", "find", ..., "dig", "done"
  mresult,           \* the object mine() returned
  mequipped,         \* the name of the tool in the bot's hand, "" for none
  \* ---- buildStructure's placement loop (utils/buildExecutor.js) ------------
  blueprint,         \* blueprint.blocks: the voxels in the blueprint's order
  layerByLayer,      \* options.layerByLayer
  world,             \* the block name at every cell of the blueprint's box
  blockItems,        \* the count of the blueprint's block item in bot.inventory
  sortedBlocks,      \* buildExecutor.js:212   const sortedBlocks
  bidx,              \* the loop index i, counted from 1
  bpc,               \* "idle", "loop", "place" or "done"
  bcount,            \* placedBlocks, failedBlocks, skippedBlocks, clearedBlocks
  bret,              \* status of the returned object, "none" before the return
  taken,             \* the voxels the loop has taken up, in order
  digCalled,         \* TRUE once bot.dig was called
  placeCalled,       \* TRUE once bot.placeBlock was called
  \* ---- waitForSmelting (utils/furnaceManager.js:665) -----------------------
  wnow,              \* the time in ms since the wait's furnace was loaded
  wexpected,         \* expectedCount
  woutput,           \* furnace.outputItem().count, 0 when the slot is empty
  wsmelted,          \* furnaceManager.js:669   let smeltedCount
  wtimers,           \* deadlines of updateTimeout, completionTimeout, maxTimeout
  wlistener,         \* TRUE iff the 'update' listener is registered
  wstatus,           \* "idle", "pending", "resolved", "rejected_..."
  wsettles,          \* the number of calls of resolve or reject
  wstale,            \* ms since the last increase of smeltedCount, capped
  wlate,             \* TRUE iff the promise settled after the 5-minute cap
  siteWorld,         \* the block of every cell of the column
  siteTarget,        \* the blueprint block of every cell of the box, or "none"
  siteItems,         \* the names of the items the bot holds
  siteOptions,       \* the options buildStructure was called with
  sitePc,            \* "idle", "ground", "clear", "loop", "place", "call", "done"
  siteIdx,           \* the index of the loop in progress
  siteCount,         \* the counters of currentBuild
  pcall,             \* the call of placeBlock in flight
  siteDug,           \* the cells clearBuildArea dug out
  refNeighbours,     \* the block of each of the six neighbours of a cell
  refPlaced,          \* the name of the block to place
  refHalf,           \* the half property of the block to place
  refName,           \* the name of the block to classify
  refPc,             \* "idle", "start", "found", "classified"
  refFound,          \* the direction of the reference block, or "none"
  refValid,          \* what isValidSolidSupport returned
  stKind,            \* "furnace" or "crafting_table"
  stExisting,        \* TRUE iff a station lies within 32 blocks
  stHeld,            \* TRUE iff the bot holds a station item
  stPc,              \* "idle", "navigate", "place", "positions", "find", "returned", "thrown"
  stAttempt,         \* the navigation attempt in progress
  stDist,            \* the distance from the bot to the station, in tenths
  stPos,             \* the index of the candidate position in progress
  stNavFailed,       \* TRUE iff the navigation failed on every attempt
  stReached,         \* TRUE iff the existing station was reached
  stPlaced,          \* TRUE iff a new station was placed
  stReason,          \* why the call threw
  \* ---- actions/fight.js ----------------------------------------------------
  fInventory,        \* bot.inventory.items(), in the order of the slots
  fEquipped,         \* the item handed to bot.equip, or "none"
  fPc,               \* "idle", "fight", "search", "attack", "done"
  fResult,           \* "none", "pending", "resolved", "timeout", "stuck"
  fInterval,         \* TRUE iff attackInterval is armed
  fTimer,            \* TRUE iff the 30 s timeout is armed
  fTick,             \* the time in ms of the last run of the attack loop
  fStuck,            \* fight.js:126   let stuckCount
  fHealth,           \* entity.health
  fLastHealth,       \* fight.js:125   let lastHealth
  fValid,            \* entity.isValid
  fLate,             \* TRUE iff the loop called the bot after the promise settled
  \* ---- the counters of buildStructure (utils/buildExecutor.js:180) ---------
  cntCalls,          \* the calls of buildStructure on the executor
  cntBuild,          \* this.currentBuild: placedBlocks, failedBlocks, skippedBlocks
  cntAborted         \* this.aborted

srvVars == <<isProcessing, currentBlueprint, buildExecutor, tasks, lastOut,
             aborted, currentBuild, currentPrompt>>
crfVars == <<recipes, inv, tableNear, goal, stack, acted, shortMined, cstatus>>
chnVars == <<cinv, cstack, cresult>>
smtVars == <<sinv, coalNear, sstack, sshort, sstatus>>
minVars == <<minv, mtask, mpc, mresult, mequipped>>
bldVars == <<blueprint, layerByLayer, world, blockItems, sortedBlocks, bidx, bpc,
             bcount, bret, taken, digCalled, placeCalled>>
waitVars == <<wnow, wexpected, woutput, wsmelted, wtimers, wlistener, wstatus,
              wsettles, wstale, wlate>>
siteVars == <<siteWorld, siteTarget, siteItems, siteOptions, sitePc, siteIdx,
              siteCount, pcall, siteDug>>
refVars == <<refNeighbours, refPlaced, refHalf, refName, refPc, refFound, refValid>>
stationVars == <<stKind, stExisting, stHeld, stPc, stAttempt, stDist, stPos,
                 stNavFailed, stReached, stPlaced, stReason>>
fightVars == <<fInventory, fEquipped, fPc, fResult, fInterval, fTimer, fTick, fStuck,
               fHealth, fLastHealth, fValid, fLate>>
countVars == <<cntCalls, cntBuild, cntAborted>>
vars == <<srvVars, crfVars, chnVars, smtVars, minVars, bldVars, waitVars, siteVars, refVars,
          stationVars, fightVars, countVars>>
otherThanCrf == <<srvVars, chnVars, smtVars, minVars, bldVars, waitVars, siteVars, refVars,
  stationVars, fightVars, countVars>>
otherThanChn == <<srvVars, crfVars, smtVars, minVars, bldVars, waitVars, siteVars, refVars,
  stationVars, fightVars, countVars>>
otherThanSmt == <<srvVars, crfVars, chnVars, minVars, bldVars, waitVars, siteVars, refVars,
  stationVars, fightVars, countVars>>
otherThanMin == <<srvVars, crfVars, chnVars, smtVars, bldVars, waitVars, siteVars, refVars,
  stationVars, fightVars, countVars>>
otherThanBld == <<srvVars, crfVars, chnVars, smtVars, minVars, waitVars, siteVars, refVars,
  stationVars, fightVars, countVars>>
otherThanWait == <<srvVars, crfVars, chnVars, smtVars, minVars, bldVars, siteVars, refVars,
  stationVars, fightVars, countVars>>
otherThanSite == <<srvVars, crfVars, chnVars, smtVars, minVars, bldVars, waitVars, refVars,
  stationVars, fightVars, countVars>>
otherThanRef == <<srvVars, crfVars, chnVars, smtVars, minVars, bldVars, waitVars, siteVars,
  stationVars, fightVars, countVars>>
otherThanStation == <<srvVars, crfVars, chnVars, smtVars, minVars, bldVars, waitVars, siteVars,
  refVars, fightVars, countVars>>
otherThanFight == <<srvVars, crfVars, chnVars, smtVars, minVars, bldVars, waitVars, siteVars,
  refVars, stationVars, countVars>>
otherThanCount == <<srvVars, crfVars, chnVars, smtVars, minVars, bldVars, waitVars, siteVars,
  refVars, stationVars, fightVars>>

(***************************************************************************)
(* Bounds of the model.                                                    *)
(***************************************************************************)
MaxSteps == 2        \* steps of a multi-step command
NumVoxels == 2       \* voxels of the loaded blueprint

\* The slots of the handlers in flight: any two handlers may overlap.
Tasks == {1, 2}

(***************************************************************************)
(* Part 1.  The command front end (server.js) and the BuildExecutor.       *)
(***************************************************************************)

\* The verbs of executeAction that matter here: build_structure runs the
\* module-level BuildExecutor, every other verb ("other") is one awaited call.
Actions == {"other", "build_structure"}

NoPrompt == [param |-> "none", owner |-> 0]
NoResult == [success |-> FALSE, status |-> "none"]

\* A free handler slot.  n is the number of steps of the parsed command, log
\* the state of every step started so far ("run", "ok", "fail", "throw"),
\* said the chat lines processInGameCommand sent when its last step settled.
IdleTask ==
  [kind |-> "none", pc |-> "idle", n |-> 0, multi |-> FALSE, log |-> <<>>,
   param |-> "none", bi |-> 0, abortSeen |-> FALSE, byAbort |-> FALSE,
   result |-> NoResult, said |-> <<>>]

NewTask(kind) == [IdleTask EXCEPT !.kind = kind]

Free(t) == tasks[t].pc \in {"idle", "done"}

\* A new handler takes the first free slot (slots are only names).
FreeSlot(t) == Free(t) /\ \A u \in Tasks : u < t => ~Free(u)

\* A handler that has started and not yet finished.
Executing(t) == ~Free(t)

\* buildStructure has been entered and has not returned.
InBuild(tk) == tk.pc \in {"prompt", "ground", "clear", "place", "placing"}

\* buildStructure is past its prompts (lines 179..305).
BuildRunning == \E t \in Tasks : tasks[t].pc \in {"ground", "clear", "place", "placing"}

otherThanSrv == <<crfVars, chnVars, smtVars, minVars, bldVars, waitVars, siteVars, refVars,
  stationVars, fightVars, countVars>>

SrvInit ==
  /\ isProcessing = FALSE
  /\ currentBlueprint = FALSE
  /\ buildExecutor = FALSE
  /\ tasks = [t \in Tasks |-> IdleTask]
  /\ lastOut = "other"
  /\ aborted = FALSE
  /\ currentBuild = FALSE
  /\ currentPrompt = NoPrompt

NextParam(p) ==
  CASE p = "y_level" -> "x_coord"
    [] p = "x_coord" -> "z_coord"
    [] p = "z_coord" -> "confirm"
    [] OTHER -> "none"

\* buildStructure lines 179-188: the flag is cleared and the build recorded,
\* then the phases start (prepareGroundArea is the first await).
BeginBuildAtPrompt(tk) == [tk EXCEPT !.bi = 1]
BeginBuild(tk) == [tk EXCEPT !.pc = "ground", !.param = "none", !.bi = 1]

\* BuildExecutor.abortBuild applied to an executor with the given fields:
\* the new value of its flag and the value returned.
ExecAbortBuild(ex) ==
  IF ex.currentBuild
    THEN [aborted |-> TRUE, ret |-> TRUE]
    ELSE [aborted |-> ex.aborted, ret |-> FALSE]

\* server.js:534 `await executeAction(...)`: the loop goes on only when the
\* awaited action has settled and the 500 ms pause is running.
AwaitedStepSettledNoAwait(tk) == tk.pc \in {"sleep", "action"}
AwaitedStepSettled(tk) == tk.pc = "sleep"

\* server.js:536-540 `if (!result.success) { ...; break; }`; a throw leaves
\* the loop through the catch of line 582.
ContinueAfterNoBreak(outcome) == outcome # "throw"
ContinueAfter(outcome) == outcome = "ok"

SetLast(log, v) == [log EXCEPT ![Len(log)] = v]

\* executeAction(action, ...) is called by the handler whose record is tk: the
\* code up to the first suspension.  "other" verbs suspend on one awaited call;
\* build_structure creates the executor when missing and enters buildStructure,
\* which prompts when no position came with the command.
StartAction(t, tk, a) ==
  \/ /\ a = "other"
     /\ tasks' = [tasks EXCEPT ![t] = [tk EXCEPT !.pc = "action"]]
     /\ UNCHANGED <<buildExecutor, aborted, currentBuild, currentPrompt>>
  \/ /\ a = "build_structure"
     /\ buildExecutor' = TRUE
     /\ \/ /\ tasks' = [tasks EXCEPT ![t] = BeginBuild([tk EXCEPT !.abortSeen = FALSE])]
           /\ aborted' = FALSE
           /\ currentBuild' = TRUE
           /\ UNCHANGED currentPrompt
        \/ /\ tasks' = [tasks EXCEPT ![t] =
                          [tk EXCEPT !.pc = "prompt", !.param = "y_level",
                                     !.abortSeen = FALSE]]
           /\ currentPrompt' = [param |-> "y_level", owner |-> t]
           /\ UNCHANGED <<aborted, currentBuild>>

\* The record of a handler that has finished: its locals are gone, the log of
\* its steps and what it returned are kept for inspection.
Finished(tk, outcome) ==
  [tk EXCEPT !.pc = "done", !.log = SetLast(tk.log, outcome), !.param = "none",
             !.bi = 0, !.abortSeen = FALSE]

\* processInGameCommand, lines 536-592: the chat lines that follow the last
\* awaited executeAction of the command.  A failed step of a multi-step
\* command sends its failure line (537), breaks, and the line after the loop
\* (549) is sent as well; a throw goes to the catch (582-591); a single action
\* answers by lines 571-579.
FinalMessages(multi, outcome) ==
  IF outcome = "throw" THEN <<"error">>
  ELSE IF multi
    THEN IF outcome = "ok" THEN <<"completed">> ELSE <<"failed", "completed">>
    ELSE IF outcome = "ok" THEN <<"done">> ELSE <<"failed">>

\* The code that runs in the caller when the awaited executeAction (or, for the
\* chat built-in, buildStructure) settles with `outcome` for the handler tk.
AfterAction(t, tk, outcome) ==
  CASE tk.kind = "chatbuild" ->
         /\ tasks' = [tasks EXCEPT ![t] = Finished(tk, outcome)]
         /\ lastOut' = "other"
         /\ currentBlueprint' = FALSE
         /\ UNCHANGED isProcessing
    [] tk.kind = "ai" /\ tk.multi /\ ContinueAfter(outcome) ->
         /\ tasks' = [tasks EXCEPT ![t] =
               [tk EXCEPT !.pc = "sleep", !.log = SetLast(tk.log, outcome),
                          !.param = "none", !.bi = 0, !.abortSeen = FALSE,
                          !.byAbort = FALSE, !.result = NoResult]]
         /\ UNCHANGED <<lastOut, currentBlueprint, isProcessing>>
    [] tk.kind = "ai" /\ ~(tk.multi /\ ContinueAfter(outcome)) ->
         /\ tasks' = [tasks EXCEPT ![t] =
               [Finished(tk, outcome) EXCEPT !.byAbort = FALSE, !.result = NoResult,
                                            !.said = FinalMessages(tk.multi, outcome)]]
         /\ lastOut' = "other"
         /\ isProcessing' = FALSE
         /\ UNCHANGED currentBlueprint
    [] OTHER ->      \* REST: res.json(result) or the 500 reply
         /\ tasks' = [tasks EXCEPT ![t] = Finished(tk, outcome)]
         /\ UNCHANGED <<lastOut, currentBlueprint, isProcessing>>

\* buildStructure returns `res` to its caller.
BuildReturns(t, tk, res) ==
  AfterAction(t, [tk EXCEPT !.result = res], IF res.success THEN "ok" ELSE "fail")

----------------------------------------------------------------------------
\* bot.on('chat'), lines 143-146: a command line other than `stop` arriving
\* while isProcessing.
ChatRejected ==
  /\ isProcessing
  /\ lastOut' = "busy"
  /\ UNCHANGED <<isProcessing, currentBlueprint, buildExecutor, tasks,
                 aborted, currentBuild, currentPrompt>>
  /\ UNCHANGED otherThanSrv

\* bot.on('chat'), lines 143-146: the busy check a command line has to pass.
AcceptsCommandAlways == TRUE
AcceptsCommand == ~isProcessing

\* bot.on('chat') line 331 -> processInGameCommand: the flag is set and the
\* parser is awaited.
ChatCommand(t) ==
  /\ FreeSlot(t)
  /\ AcceptsCommand
  /\ isProcessing' = TRUE
  /\ lastOut' = "other"
  /\ tasks' = [tasks EXCEPT ![t] = [NewTask("ai") EXCEPT !.pc = "parse"]]
  /\ UNCHANGED <<currentBlueprint, buildExecutor, aborted, currentBuild, currentPrompt>>
  /\ UNCHANGED otherThanSrv

\* processInGameCommand, lines 503-569: the parser answered.  The verbs of the
\* steps are inputs too; each is drawn when its step starts.
ParseReturn(t) ==
  /\ tasks[t].pc = "parse"
  /\ \/ \* status # 200, parsedCommand.error, no action, or axios threw
        /\ tasks' = [tasks EXCEPT ![t] = [IdleTask EXCEPT !.kind = "ai", !.pc = "done"]]
        /\ isProcessing' = FALSE
        /\ UNCHANGED <<buildExecutor, aborted, currentBuild, currentPrompt>>
     \/ \E n \in 1..MaxSteps, m \in BOOLEAN, a \in Actions :
        /\ m \/ n = 1
        /\ UNCHANGED isProcessing
        /\ StartAction(t, [tasks[t] EXCEPT !.n = n, !.multi = m, !.log = <<"run">>], a)
  /\ lastOut' = "other"
  /\ UNCHANGED currentBlueprint
  /\ UNCHANGED otherThanSrv

\* An awaited action other than a build settles.
ActionResolve(t) ==
  /\ tasks[t].pc = "action"
  /\ \E outcome \in {"ok", "fail", "throw"} : AfterAction(t, tasks[t], outcome)
  /\ UNCHANGED <<buildExecutor, aborted, currentBuild, currentPrompt>>
  /\ UNCHANGED otherThanSrv

\* processInGameCommand, lines 526-550: the next turn of the step loop.
LoopNext(t) ==
  /\ tasks[t].kind = "ai" /\ tasks[t].multi
  /\ AwaitedStepSettled(tasks[t])
  /\ IF Len(tasks[t].log) < tasks[t].n
       THEN /\ \E a \in Actions :
                 StartAction(t, [tasks[t] EXCEPT !.log = Append(@, "run")], a)
            /\ UNCHANGED isProcessing
       ELSE /\ tasks[t].pc = "sleep"
            /\ tasks' = [tasks EXCEPT ![t].pc = "done",
                                      ![t].said = FinalMessages(TRUE, "ok")]
            /\ isProcessing' = FALSE
            /\ UNCHANGED <<buildExecutor, aborted, currentBuild, currentPrompt>>
  /\ lastOut' = "other"
  /\ UNCHANGED currentBlueprint
  /\ UNCHANGED otherThanSrv

\* app.post('/command'), lines 684-695.
RestCommand(t) ==
  /\ FreeSlot(t)
  /\ \E a \in Actions :
       StartAction(t, [NewTask("rest") EXCEPT !.n = 1, !.log = <<"run">>], a)
  /\ UNCHANGED <<isProcessing, currentBlueprint, lastOut>>
  /\ UNCHANGED otherThanSrv

\* bot.on('chat') 'load blueprint <name>', lines 203-218.
ChatLoadBlueprint ==
  /\ ~isProcessing
  /\ ~currentBlueprint
  /\ currentBlueprint' = TRUE
  /\ lastOut' = "other"
  /\ UNCHANGED <<isProcessing, buildExecutor, tasks, aborted, currentBuild,
                 currentPrompt>>
  /\ UNCHANGED otherThanSrv

\* bot.on('chat') 'gather materials', lines 243-270.
ChatGather(t) ==
  /\ FreeSlot(t)
  /\ ~isProcessing
  /\ currentBlueprint
  /\ lastOut' = "other"
  /\ tasks' = [tasks EXCEPT ![t] = [NewTask("gather") EXCEPT !.pc = "gathering"]]
  /\ UNCHANGED <<isProcessing, currentBlueprint, buildExecutor, aborted,
                 currentBuild, currentPrompt>>
  /\ UNCHANGED otherThanSrv

GatherDone(t) ==
  /\ tasks[t].pc = "gathering"
  /\ lastOut' = "other"
  /\ tasks' = [tasks EXCEPT ![t].pc = "done"]
  /\ UNCHANGED <<isProcessing, currentBlueprint, buildExecutor, aborted,
                 currentBuild, currentPrompt>>
  /\ UNCHANGED otherThanSrv

\* bot.on('chat') 'build', lines 273-317, up to the first prompt of
\* buildStructure(currentBlueprint, null, ...).
ChatBuild(t) ==
  /\ FreeSlot(t)
  /\ ~isProcessing
  /\ currentBlueprint
  /\ lastOut' = "other"
  /\ \/ UNCHANGED <<buildExecutor, tasks, currentPrompt>>    \* missing materials
     \/ /\ buildExecutor' = TRUE
        /\ tasks' = [tasks EXCEPT ![t] =
                       [NewTask("chatbuild") EXCEPT !.pc = "prompt", !.n = 1,
                          !.log = <<"run">>, !.param = "y_level"]]
        /\ currentPrompt' = [param |-> "y_level", owner |-> t]
  /\ UNCHANGED <<isProcessing, currentBlueprint, aborted, currentBuild>>
  /\ UNCHANGED otherThanSrv

\* bot.on('chat') lines 123-128 -> handleUserResponse: a chat line that the
\* pending prompt accepts (a number or "current" for a coordinate, yes/no for
\* the confirmation).  The stored resolver settles the promise it was made for
\* if that promise is still pending, and the prompt is cleared.
PromptAnswer ==
  /\ buildExecutor
  /\ currentPrompt # NoPrompt
  /\ LET o == currentPrompt.owner
         live == tasks[o].pc = "prompt" /\ tasks[o].param = currentPrompt.param
     IN  \/ /\ ~live
            /\ currentPrompt' = NoPrompt
            /\ UNCHANGED <<tasks, aborted, currentBuild, lastOut, currentBlueprint,
                           isProcessing>>
         \/ /\ live /\ currentPrompt.param # "confirm"
            /\ tasks' = [tasks EXCEPT ![o].param = NextParam(@)]
            /\ currentPrompt' = [param |-> NextParam(currentPrompt.param), owner |-> o]
            /\ UNCHANGED <<aborted, currentBuild, lastOut, currentBlueprint,
                           isProcessing>>
         \/ /\ live /\ currentPrompt.param = "confirm"
            /\ currentPrompt' = NoPrompt
            /\ \/ /\ tasks' = [tasks EXCEPT ![o] = BeginBuild(@)]
                  /\ aborted' = FALSE
                  /\ currentBuild' = TRUE
                  /\ UNCHANGED <<lastOut, currentBlueprint, isProcessing>>
               \/ /\ BuildReturns(o, tasks[o], [success |-> FALSE, status |-> "cancelled"])
                  /\ UNCHANGED <<aborted, currentBuild>>
  /\ UNCHANGED buildExecutor
  /\ UNCHANGED otherThanSrv

\* waitForUserResponse / waitForUserConfirmation: the 60 s timer fires.  The
\* default (or `false`) settles the promise; this.currentPrompt is not cleared.
PromptTimeout(t) ==
  /\ tasks[t].pc = "prompt"
  /\ IF tasks[t].param # "confirm"
       THEN /\ tasks' = [tasks EXCEPT ![t].param = NextParam(@)]
            /\ currentPrompt' = [param |-> NextParam(tasks[t].param), owner |-> t]
            /\ UNCHANGED <<lastOut, currentBlueprint, isProcessing>>
       ELSE /\ BuildReturns(t, tasks[t], [success |-> FALSE, status |-> "cancelled"])
            /\ UNCHANGED currentPrompt
  /\ UNCHANGED <<buildExecutor, aborted, currentBuild>>
  /\ UNCHANGED otherThanSrv

\* buildStructure lines 202-204: prepareGroundArea settles.
GroundDone(t) ==
  /\ tasks[t].pc = "ground"
  /\ tasks' = [tasks EXCEPT ![t].pc = "clear"]
  /\ UNCHANGED <<isProcessing, currentBlueprint, buildExecutor, lastOut,
                 aborted, currentBuild, currentPrompt>>
  /\ UNCHANGED otherThanSrv

\* buildStructure lines 207-214: clearBuildArea settles, the blocks are sorted.
ClearDone(t) ==
  /\ tasks[t].pc = "clear"
  /\ tasks' = [tasks EXCEPT ![t].pc = "place"]
  /\ UNCHANGED <<isProcessing, currentBlueprint, buildExecutor, lastOut,
                 aborted, currentBuild, currentPrompt>>
  /\ UNCHANGED otherThanSrv

\* buildStructure lines 217-274 and 307-324: one turn of the placement loop, up
\* to the awaited placeBlock, or the return that follows the loop.
PlaceStep(t) ==
  LET tk == tasks[t] IN
  /\ tk.pc = "place"
  /\ IF tk.bi > NumVoxels
       THEN BuildReturns(t, tk, [success |-> TRUE, status |-> "completed"])
       ELSE IF aborted
         THEN BuildReturns(t, [tk EXCEPT !.byAbort = TRUE],
                           [success |-> TRUE, status |-> "completed"])
         ELSE \/ BuildReturns(t, tk, [success |-> FALSE, status |-> "missing_items"])
              \/ /\ tasks' = [tasks EXCEPT ![t].bi = @ + 1]
                 /\ UNCHANGED <<lastOut, currentBlueprint, isProcessing>>
              \/ /\ tasks' = [tasks EXCEPT ![t].pc = "placing"]
                 /\ UNCHANGED <<lastOut, currentBlueprint, isProcessing>>
  /\ UNCHANGED <<buildExecutor, aborted, currentBuild, currentPrompt>>
  /\ UNCHANGED otherThanSrv

\* buildStructure lines 270-305 and 326-336: the awaited placeBlock settles.
PlaceResolve(t) ==
  LET tk == tasks[t] IN
  /\ tk.pc = "placing"
  /\ \/ /\ tasks' = [tasks EXCEPT ![t].pc = "place", ![t].bi = @ + 1]
        /\ UNCHANGED <<lastOut, currentBlueprint, isProcessing>>
     \/ BuildReturns(t, tk, [success |-> FALSE, status |-> "error"])
  /\ UNCHANGED <<buildExecutor, aborted, currentBuild, currentPrompt>>
  /\ UNCHANGED otherThanSrv

\* BuildExecutor.abortBuild() called on the module-level executor.
ExecutorAbort ==
  /\ buildExecutor
  /\ LET r == ExecAbortBuild([currentBuild |-> currentBuild, aborted |-> aborted])
     IN  /\ aborted' = r.aborted
         /\ tasks' = [t \in Tasks |->
                        IF r.ret /\ InBuild(tasks[t])
                          THEN [tasks[t] EXCEPT !.abortSeen = TRUE] ELSE tasks[t]]
  /\ UNCHANGED <<isProcessing, currentBlueprint, buildExecutor, lastOut,
                 currentBuild, currentPrompt>>
  /\ UNCHANGED otherThanSrv

\* The exported abortBuild(bot, params) of actions/build.js: it constructs a
\* BuildExecutor of its own and calls abortBuild() on that one.
AbortBuildAction ==
  /\ LET r == ExecAbortBuild([currentBuild |-> FALSE, aborted |-> FALSE])
     IN  lastOut' = IF r.ret THEN "build_aborted" ELSE "no_active_build"
  /\ UNCHANGED <<isProcessing, currentBlueprint, buildExecutor, tasks,
                 aborted, currentBuild, currentPrompt>>
  /\ UNCHANGED otherThanSrv

\* bot.on('chat') with the line 'stop': lines 143-146, then lines 174-179.
ChatStop ==
  /\ lastOut' = IF isProcessing THEN "stop_busy" ELSE "stopped"
  /\ UNCHANGED <<isProcessing, currentBlueprint, buildExecutor, tasks, aborted,
                 currentBuild, currentPrompt>>
  /\ UNCHANGED otherThanSrv

(***************************************************************************)
(* Part 2.  The recipe-database crafter (actions/craft.js, lines 1-439).   *)
(* craftItem and gatherMaterial call each other recursively; the model     *)
(* keeps one activation record per craftItem call in flight.               *)
(***************************************************************************)
MaxCount == 2        \* largest count of a top-level request
MaxPlanks == 7       \* most oak_planks held when the request arrives
MaxSticks == 3       \* most sticks held when the request arrives
MaxLogs == 1         \* most oak_log held when the request arrives
MaxTables == 1       \* most crafting_table items held when the request arrives
MaxDepth == 4        \* craftItem calls in flight

Items == {"wooden_pickaxe", "stick", "oak_planks", "oak_log", "crafting_table",
          "iron_ingot", "iron_block"}

NoRecipe == [ing |-> <<>>, yield |-> 0, wide |-> FALSE]

\* The first recipe of each item (RecipeManager.getRecipe) with its ingredient
\* counts (getIngredients) in insertion order; wide is inShape.length > 2.
WoodRecipes ==
  [i \in Items |->
     CASE i = "wooden_pickaxe" ->
            [ing |-> <<[item |-> "oak_planks", n |-> 3], [item |-> "stick", n |-> 2]>>,
             yield |-> 1, wide |-> TRUE]
       [] i = "stick" ->
            [ing |-> <<[item |-> "oak_planks", n |-> 2]>>, yield |-> 4, wide |-> FALSE]
       [] i = "oak_planks" ->
            [ing |-> <<[item |-> "oak_log", n |-> 1]>>, yield |-> 4, wide |-> FALSE]
       [] i = "crafting_table" ->
            [ing |-> <<[item |-> "oak_planks", n |-> 4]>>, yield |-> 1, wide |-> FALSE]
       [] OTHER -> NoRecipe]

\* The same database when the first recipe of iron_ingot is the one from
\* iron_block: iron_block is crafted from iron_ingot and iron_ingot from
\* iron_block.
IronRecipes ==
  [i \in Items |->
     CASE i = "iron_block" ->
            [ing |-> <<[item |-> "iron_ingot", n |-> 9]>>, yield |-> 1, wide |-> TRUE]
       [] i = "iron_ingot" ->
            [ing |-> <<[item |-> "iron_block", n |-> 1]>>, yield |-> 9, wide |-> FALSE]
       [] OTHER -> WoodRecipes[i]]

RecipeTables == {WoodRecipes, IronRecipes}

\* mineForItem, lines 324-347: the block an item is mined from, "" when the
\* call throws before any block is looked for.
BlockFor(item) ==
  CASE item = "oak_log" -> "oak_log"
    [] item = "iron_ingot" -> "iron_ore"
    [] item \in {"stick", "oak_planks"} -> ""
    [] item \in {"iron_block", "crafting_table"} -> item
    [] OTHER -> ""

\* What one mined block of the given kind drops into the inventory.
DropOf(block) == IF block \in Items THEN block ELSE "none"

Frame(item, count) ==
  [item |-> item, count |-> count, phase |-> "gather", k |-> 1, i |-> 0,
   table |-> FALSE, fallback |-> FALSE]

\* craftItem, lines 171-203: the record of a new call.  An item without a
\* recipe in the database goes to craftWithBotRecipe (line 196).
EnterCraftItem(item, count) ==
  IF recipes[item] = NoRecipe
    THEN [Frame(item, count) EXCEPT !.phase = "table", !.fallback = TRUE]
    ELSE Frame(item, count)

Top == stack[Len(stack)]
SetTop(f) == stack' = [stack EXCEPT ![Len(stack)] = f]
Push(parent, child) == stack' = [stack EXCEPT ![Len(stack)] = parent] \o <<child>>

\* An exception nobody catches below the top-level caller.
Throw == stack' = <<>> /\ cstatus' = "error"

\* The caller goes on after the awaited craftItem call has returned.
Resume(p) ==
  CASE p.phase = "gather_wait" -> [p EXCEPT !.phase = "gather", !.k = @ + 1]
    [] p.phase = "planks_wait" -> [p EXCEPT !.phase = "table_craft"]
    [] p.phase = "table_wait" -> [p EXCEPT !.phase = "table_place"]
    [] OTHER -> p

Return ==
  IF Len(stack) = 1
    THEN stack' = <<>> /\ cstatus' = "ok"
    ELSE /\ stack' = SubSeq(stack, 1, Len(stack) - 2) \o <<Resume(stack[Len(stack) - 1])>>
         /\ UNCHANGED cstatus

\* requirementsMetForRecipe of bot.recipesFor / bot.craft: the inventory holds
\* the inputs of n crafts, and a wide recipe has its table.
CanCraft(f, n) ==
  /\ recipes[f.item] # NoRecipe
  /\ recipes[f.item].wide => f.table
  /\ \A j \in 1..Len(recipes[f.item].ing) :
       inv[recipes[f.item].ing[j].item] >= recipes[f.item].ing[j].n * n

\* The inventory after one bot.craft of the item.
RECURSIVE Consume(_, _)
Consume(v, ing) ==
  IF ing = <<>> THEN v
  ELSE Consume([v EXCEPT ![Head(ing).item] = @ - Head(ing).n], Tail(ing))

Crafted(v, item) ==
  [Consume(v, recipes[item].ing) EXCEPT ![item] = @ + recipes[item].yield]

Inventories ==
  {[i \in Items |-> CASE i = "oak_planks" -> p [] i = "stick" -> s
                      [] i = "oak_log" -> l [] i = "crafting_table" -> c
                      [] OTHER -> 0] :
     p \in 0..MaxPlanks, s \in 0..MaxSticks, l \in 0..MaxLogs, c \in 0..MaxTables}

NoGoal == [item |-> "none", count |-> 0, held |-> 0]

CrfInit ==
  /\ recipes \in RecipeTables
  /\ inv \in Inventories
  /\ tableNear \in BOOLEAN
  /\ goal = NoGoal
  /\ stack = <<>>
  /\ acted = FALSE
  /\ shortMined = FALSE
  /\ cstatus = "idle"

\* A top-level craftItem(bot, {itemName, count}) call.
CraftItem ==
  /\ cstatus = "idle"
  /\ \E item \in Items, count \in 1..MaxCount :
       /\ goal' = [item |-> item, count |-> count, held |-> inv[item]]
       /\ stack' = <<EnterCraftItem(item, count)>>
  /\ cstatus' = "run"
  /\ UNCHANGED <<recipes, inv, tableNear, acted, shortMined>>
  /\ UNCHANGED otherThanCrf

CrfRunning(phase) == cstatus = "run" /\ stack # <<>> /\ Top.phase = phase

\* craftItem, lines 206-208, with gatherMaterial, lines 296-301: the
\* ingredient is already held in the amount asked for.
GatherHave ==
  /\ CrfRunning("gather")
  /\ Top.k <= Len(recipes[Top.item].ing)
  /\ LET ing == recipes[Top.item].ing[Top.k]
     IN  /\ inv[ing.item] >= ing.n * Top.count
         /\ SetTop([Top EXCEPT !.k = @ + 1])
  /\ UNCHANGED <<recipes, inv, tableNear, goal, acted, shortMined, cstatus>>
  /\ UNCHANGED otherThanCrf

\* gatherMaterial, lines 303-313: the missing amount of an ingredient that
\* has a recipe is crafted by a nested craftItem call.
GatherCraft ==
  /\ CrfRunning("gather")
  /\ Top.k <= Len(recipes[Top.item].ing)
  /\ Len(stack) < MaxDepth
  /\ LET ing == recipes[Top.item].ing[Top.k]
         needed == ing.n * Top.count - inv[ing.item]
     IN  /\ needed > 0
         /\ recipes[ing.item] # NoRecipe
         /\ Push([Top EXCEPT !.phase = "gather_wait"], EnterCraftItem(ing.item, needed))
  /\ UNCHANGED <<recipes, inv, tableNear, goal, acted, shortMined, cstatus>>
  /\ UNCHANGED otherThanCrf

\* gatherMaterial, line 317, with mineForItem, lines 323-362: the missing
\* amount of an ingredient without a recipe is mined.  mine() returns
\* whatever number of blocks it got; its result is not looked at.
GatherMine ==
  /\ CrfRunning("gather")
  /\ Top.k <= Len(recipes[Top.item].ing)
  /\ LET ing == recipes[Top.item].ing[Top.k]
         needed == ing.n * Top.count - inv[ing.item]
         drop == DropOf(BlockFor(ing.item))
     IN  /\ needed > 0
         /\ recipes[ing.item] = NoRecipe
         /\ \/ Throw /\ UNCHANGED <<inv, acted, shortMined>>  \* lines 339, 346, 355
            \/ /\ BlockFor(ing.item) # ""
               /\ \E got \in 0..needed :
                    /\ inv' = IF drop = "none" THEN inv
                              ELSE [inv EXCEPT ![drop] = @ + got]
                    /\ shortMined' = (shortMined \/ got < needed)
               /\ acted' = TRUE
               /\ SetTop([Top EXCEPT !.k = @ + 1])
               /\ UNCHANGED cstatus
  /\ UNCHANGED <<recipes, tableNear, goal>>
  /\ UNCHANGED otherThanCrf

\* craftItem, lines 210-214: all ingredients were gathered.
GatherEnd ==
  /\ CrfRunning("gather")
  /\ Top.k > Len(recipes[Top.item].ing)
  /\ SetTop([Top EXCEPT !.phase = "table"])
  /\ UNCHANGED <<recipes, inv, tableNear, goal, acted, shortMined, cstatus>>
  /\ UNCHANGED otherThanCrf

NeedsTable(f) == f.fallback \/ recipes[f.item].wide

\* Line 212: a recipe that fits the 2x2 grid asks for no table.
TableSkip ==
  /\ CrfRunning("table")
  /\ ~NeedsTable(Top)
  /\ SetTop([Top EXCEPT !.phase = "recipes"])
  /\ UNCHANGED <<recipes, inv, tableNear, goal, acted, shortMined, cstatus>>
  /\ UNCHANGED otherThanCrf

\* findOrPlaceCraftingTable, lines 368-375: a table stands nearby.
TableFound ==
  /\ CrfRunning("table")
  /\ NeedsTable(Top)
  /\ tableNear
  /\ SetTop([Top EXCEPT !.phase = "recipes", !.table = TRUE])
  /\ UNCHANGED <<recipes, inv, tableNear, goal, acted, shortMined, cstatus>>
  /\ UNCHANGED otherThanCrf

\* findOrPlaceCraftingTable, lines 380-382 and 410: a table item is held.
TableHeld ==
  /\ CrfRunning("table")
  /\ NeedsTable(Top)
  /\ ~tableNear
  /\ inv["crafting_table"] > 0
  /\ SetTop([Top EXCEPT !.phase = "table_place"])
  /\ UNCHANGED <<recipes, inv, tableNear, goal, acted, shortMined, cstatus>>
  /\ UNCHANGED otherThanCrf

\* findOrPlaceCraftingTable, lines 387-401: fewer than four planks are held,
\* so planks are made from logs, or the call throws when no log is held.
TablePlanks ==
  /\ CrfRunning("table")
  /\ NeedsTable(Top)
  /\ ~tableNear
  /\ inv["crafting_table"] = 0
  /\ inv["oak_planks"] < 4
  /\ IF inv["oak_log"] = 0 \/ recipes["oak_planks"] = NoRecipe
       THEN Throw
       ELSE /\ Len(stack) < MaxDepth
            /\ Push([Top EXCEPT !.phase = "planks_wait"],
                    EnterCraftItem("oak_planks", 4 - inv["oak_planks"]))
            /\ UNCHANGED cstatus
  /\ UNCHANGED <<recipes, inv, tableNear, goal, acted, shortMined>>
  /\ UNCHANGED otherThanCrf

\* findOrPlaceCraftingTable, lines 403-406: the table is crafted.
TableCraft ==
  /\ \/ CrfRunning("table_craft")
     \/ /\ CrfRunning("table")
        /\ NeedsTable(Top)
        /\ ~tableNear
        /\ inv["crafting_table"] = 0
        /\ inv["oak_planks"] >= 4
  /\ Len(stack) < MaxDepth
  /\ Push([Top EXCEPT !.phase = "table_wait"], EnterCraftItem("crafting_table", 1))
  /\ UNCHANGED <<recipes, inv, tableNear, goal, acted, shortMined, cstatus>>
  /\ UNCHANGED otherThanCrf

\* findOrPlaceCraftingTable, lines 410-434: the held table is placed, or the
\* placement fails and the function returns null.
TablePlace ==
  /\ CrfRunning("table_place")
  /\ \/ /\ inv["crafting_table"] > 0
        /\ inv' = [inv EXCEPT !["crafting_table"] = @ - 1]
        /\ tableNear' = TRUE
        /\ acted' = TRUE
        /\ SetTop([Top EXCEPT !.phase = "recipes", !.table = TRUE])
     \/ /\ acted' = (acted \/ inv["crafting_table"] > 0)
        /\ SetTop([Top EXCEPT !.phase = "recipes", !.table = FALSE])
        /\ UNCHANGED <<inv, tableNear>>
  /\ UNCHANGED <<recipes, goal, shortMined, cstatus>>
  /\ UNCHANGED otherThanCrf

\* craftItem, lines 222-228, and craftWithBotRecipe, lines 260-264:
\* bot.recipesFor lists the recipes the inventory can pay for once.
BotRecipes ==
  /\ CrfRunning("recipes")
  /\ IF CanCraft(Top, 1)
       THEN SetTop([Top EXCEPT !.phase = "craft"]) /\ UNCHANGED cstatus
       ELSE Throw
  /\ UNCHANGED <<recipes, inv, tableNear, goal, acted, shortMined>>
  /\ UNCHANGED otherThanCrf

\* craftItem, lines 230-243: one pass of the craft loop.  bot.craft throws
\* when an input is missing; the catch rethrows only if nothing was crafted.
CraftOnce ==
  /\ CrfRunning("craft")
  /\ Top.i < Top.count
  /\ IF CanCraft(Top, 1)
       THEN /\ inv' = Crafted(inv, Top.item)
            /\ acted' = TRUE
            /\ SetTop([Top EXCEPT !.i = @ + 1])
            /\ UNCHANGED cstatus
       ELSE /\ IF Top.i = 0 THEN Throw ELSE Return
            /\ UNCHANGED <<inv, acted>>
  /\ UNCHANGED <<recipes, tableNear, goal, shortMined>>
  /\ UNCHANGED otherThanCrf

\* craftItem, lines 245-250: the loop is over, the call returns.
CraftReturn ==
  /\ CrfRunning("craft")
  /\ Top.i = Top.count
  /\ Return
  /\ UNCHANGED <<recipes, inv, tableNear, goal, acted, shortMined>>
  /\ UNCHANGED otherThanCrf

(***************************************************************************)
(* Part 3.  The table-driven CraftingChain (utils/craftingChain.js, the    *)
(* version with initializeRecipes and initializeGatheringMethods).         *)
(***************************************************************************)
MaxQuantity == 2     \* largest quantity of a top-level chain request
MaxIngots == 1       \* most iron_ingot held when the request arrives
MaxChainDepth == 4   \* executeCraftingChain calls in flight

ChainItems == {"iron_pickaxe", "iron_ingot", "stick", "oak_planks", "oak_log",
               "torch", "charcoal"}

\* initializeRecipes, lines 354-436 (the entries of the items above);
\* << >> stands for an item without an entry.
craftingRecipes ==
  [i \in ChainItems |->
     CASE i = "iron_pickaxe" -> <<[item |-> "iron_ingot", count |-> 3],
                                  [item |-> "stick", count |-> 2]>>
       [] i = "stick" -> <<[item |-> "oak_planks", count |-> 2]>>
       [] i = "oak_planks" -> <<[item |-> "oak_log", count |-> 1]>>
       [] i = "torch" -> <<[item |-> "stick", count |-> 1],
                           [item |-> "charcoal", count |-> 1]>>
       [] OTHER -> << >>]

\* initializeGatheringMethods, lines 441-549: the type of each item's method,
\* "none" for an item without an entry.
gatheringMethods ==
  [i \in ChainItems |->
     CASE i = "iron_ingot" -> "craft"
       [] i = "oak_log" -> "mine"
       [] i \in {"oak_planks", "stick"} -> "craft"
       [] OTHER -> "none"]

Scale(ings, count) ==
  [j \in 1..Len(ings) |-> [item |-> ings[j].item, count |-> ings[j].count * count]]

\* getRequiredItems, lines 154-183: the depth-first resolve() with its visited
\* set; todo is the list of resolve() calls still to be made, in call order.
RECURSIVE Resolve(_, _, _)
Resolve(todo, visited, required) ==
  IF todo = << >> THEN required
  ELSE LET h == Head(todo)
       IN  IF h.item \in visited THEN Resolve(Tail(todo), visited, required)
           ELSE IF craftingRecipes[h.item] = << >>
             THEN Resolve(Tail(todo), visited \cup {h.item}, Append(required, h))
             ELSE Resolve(Scale(craftingRecipes[h.item], h.count) \o Tail(todo),
                          visited \cup {h.item}, required)

getRequiredItems(item, quantity) ==
  Resolve(<<[item |-> item, count |-> quantity]>>, {}, << >>)

\* executeCraftingChain, lines 196-204: what the inventory lacks.
RECURSIVE Missing(_, _)
Missing(required, v) ==
  IF required = << >> THEN << >>
  ELSE LET h == Head(required)
       IN  IF v[h.item] < h.count
             THEN <<[item |-> h.item, count |-> h.count - v[h.item]]>>
                    \o Missing(Tail(required), v)
             ELSE Missing(Tail(required), v)

\* The record of a new executeCraftingChain call, lines 188-204.
EnterChain(item, quantity) ==
  [item |-> item, quantity |-> quantity,
   missing |-> Missing(getRequiredItems(item, quantity), cinv),
   j |-> 1, held |-> cinv, waiting |-> FALSE]

ChainInventories ==
  {[i \in ChainItems |-> CASE i = "iron_ingot" -> g [] i = "oak_log" -> l
                           [] OTHER -> 0] :
     g \in 0..MaxIngots, l \in 0..MaxQuantity}

ChnInit ==
  /\ cinv \in ChainInventories
  /\ cstack = << >>
  /\ cresult = "idle"

ChainTop == cstack[Len(cstack)]

\* The call on top returns to its caller: gatherItem hands the result back
\* (line 259) and the caller's loop goes on without looking at it (line 211).
ChainReturn(result) ==
  IF Len(cstack) = 1
    THEN cstack' = << >> /\ cresult' = result
    ELSE /\ cstack' = SubSeq(cstack, 1, Len(cstack) - 2)
                        \o <<[cstack[Len(cstack) - 1] EXCEPT !.j = @ + 1,
                                                             !.waiting = FALSE]>>
         /\ UNCHANGED cresult

ChainAt == cresult = "run" /\ cstack # << >> /\ ~ChainTop.waiting

\* A top-level executeCraftingChain(itemName, quantity) call.
ExecuteCraftingChain ==
  /\ cresult = "idle"
  /\ \E item \in ChainItems, quantity \in 1..MaxQuantity :
       cstack' = <<EnterChain(item, quantity)>>
  /\ cresult' = "run"
  /\ UNCHANGED cinv
  /\ UNCHANGED otherThanChn

\* gatherItem, lines 246-250: a missing item is mined; mine() resolves with
\* whatever number of blocks it got.
GatherItemMine ==
  /\ ChainAt
  /\ ChainTop.j <= Len(ChainTop.missing)
  /\ LET m == ChainTop.missing[ChainTop.j]
     IN  /\ gatheringMethods[m.item] = "mine"
         /\ \E got \in 0..m.count : cinv' = [cinv EXCEPT ![m.item] = @ + got]
  /\ cstack' = [cstack EXCEPT ![Len(cstack)].j = @ + 1]
  /\ UNCHANGED cresult
  /\ UNCHANGED otherThanChn

\* gatherItem, lines 258-259: a missing item whose method is 'craft' is handed
\* to a nested executeCraftingChain call.
GatherItemCraft ==
  /\ ChainAt
  /\ ChainTop.j <= Len(ChainTop.missing)
  /\ Len(cstack) < MaxChainDepth
  /\ LET m == ChainTop.missing[ChainTop.j]
     IN  /\ gatheringMethods[m.item] = "craft"
         /\ cstack' = [cstack EXCEPT ![Len(cstack)].waiting = TRUE]
                        \o <<EnterChain(m.item, m.count)>>
  /\ UNCHANGED <<cinv, cresult>>
  /\ UNCHANGED otherThanChn

\* gatherItem, lines 241-243, caught at lines 224-230: no method is known.
GatherItemUnknown ==
  /\ ChainAt
  /\ ChainTop.j <= Len(ChainTop.missing)
  /\ gatheringMethods[ChainTop.missing[ChainTop.j].item] = "none"
  /\ ChainReturn("error")
  /\ UNCHANGED cinv
  /\ UNCHANGED otherThanChn

\* executeCraftingChain, lines 216-230: the final this.craftItem call, which
\* either crafts the item or throws.
ChainCraftItem ==
  /\ ChainAt
  /\ ChainTop.j > Len(ChainTop.missing)
  /\ \/ /\ cinv' = [cinv EXCEPT ![ChainTop.item] = @ + ChainTop.quantity]
        /\ ChainReturn("ok")
     \/ /\ UNCHANGED cinv
        /\ ChainReturn("error")
  /\ UNCHANGED otherThanChn

(***************************************************************************)
(* Part 4.  The SmeltingManager (utils/furnaceManager.js, lines 270-723)   *)
(* with the tables of utils/smeltingRecipes.js.  smeltItem may call itself *)
(* through gatherFuel('charcoal'); the model keeps one activation record   *)
(* per smeltItem call in flight.                                           *)
(***************************************************************************)
MaxAmount == 9       \* largest amount of a top-level smelting request
MaxFuelHeld == 1     \* most coal, charcoal, planks, sticks, raw iron held at the call
MaxSmeltLogs == 2    \* most oak_log held at the call
MaxSmeltDepth == 2   \* smeltItem calls in flight

TicksPerItem == 200  \* smeltingRecipes.js: ticks one item takes to smelt

SmeltItems == {"coal", "charcoal", "oak_log", "oak_planks", "stick",
               "raw_iron", "iron_ingot"}

\* FUEL_PRIORITY restricted to the items above.
FUEL_PRIORITY == <<"coal", "charcoal", "oak_log", "oak_planks", "stick">>

\* FUEL_VALUES / getFuelValue: burn ticks, 0 for an item that is no fuel.
getFuelValue(itemName) ==
  CASE itemName \in {"coal", "charcoal"} -> 1600
    [] itemName \in {"oak_log", "oak_planks"} -> 300
    [] itemName = "stick" -> 100
    [] OTHER -> 0

\* SMELTING_RECIPES / getSmeltingInput: "" for an item that is not smeltable.
getSmeltingInput(outputItem) ==
  CASE outputItem = "iron_ingot" -> "raw_iron"
    [] outputItem = "charcoal" -> "oak_log"
    [] OTHER -> ""

isSmeltable(itemName) == getSmeltingInput(itemName) # ""

\* Math.ceil(a / b) and Math.floor(a / b) on non-negative integers.
CeilDiv(a, b) == IF a % b = 0 THEN a \div b ELSE (a \div b) + 1
FloorDiv(a, b) == a \div b

\* calculateSmeltableItems, lines 246-251.
calculateSmeltableItems(fuelName, fuelCount) ==
  FloorDiv(getFuelValue(fuelName) * fuelCount, TicksPerItem)

\* calculateFuelNeeded, lines 256-261 (called for fuels only).
calculateFuelNeededFloor(fuelName, itemCount) ==
  FloorDiv(itemCount * TicksPerItem, getFuelValue(fuelName))
calculateFuelNeeded(fuelName, itemCount) ==
  CeilDiv(itemCount * TicksPerItem, getFuelValue(fuelName))

Max(a, b) == IF a >= b THEN a ELSE b
Min(a, b) == IF a <= b THEN a ELSE b

\* getBestAvailableFuel, lines 478-504: the first held fuel of the priority
\* list, "" when no fuel is held.
RECURSIVE FirstHeld(_, _)
FirstHeld(names, v) ==
  IF names = << >> THEN ""
  ELSE IF v[Head(names)] > 0 THEN Head(names) ELSE FirstHeld(Tail(names), v)

getBestAvailableFuel(v) == FirstHeld(FUEL_PRIORITY, v)

\* What mine() yields for a request of n blocks: nothing, one short, or all.
MineOutcomes(n) == {0, n} \cup (IF n > 1 THEN {n - 1} ELSE {})

\* gatherFuel, lines 509-564: the calls it makes for a fuel, in order;
\* "mine" and "throw" stand for the branches that make no nested call.
GatherOp(fuelName, amount) == [op |-> "gather", item |-> fuelName, n |-> amount]

gatherFuel(fuelName, amount) ==
  CASE fuelName = "coal" -> <<[op |-> "mine", item |-> "coal", n |-> amount]>>
    [] fuelName = "charcoal" ->
         <<GatherOp("oak_log", CeilDiv(amount, 2)),
           [op |-> "back", item |-> "", n |-> 0],
           [op |-> "smelt", item |-> "charcoal", n |-> amount]>>
    [] fuelName = "oak_log" -> <<[op |-> "mine", item |-> "oak_log", n |-> amount]>>
    [] fuelName = "oak_planks" ->
         <<GatherOp("oak_log", CeilDiv(amount, 4)),
           [op |-> "craft", item |-> "oak_planks", n |-> amount]>>
    [] fuelName = "stick" ->
         <<GatherOp("oak_planks", CeilDiv(amount, 4)),
           [op |-> "craft", item |-> "stick", n |-> amount]>>
    [] OTHER -> <<[op |-> "throw", item |-> fuelName, n |-> amount]>>

\* gatherDefaultFuel, lines 569-586.
gatherDefaultFuel(itemCount, coalOre) ==
  IF coalOre
    THEN <<GatherOp("coal", Max(1, calculateFuelNeeded("coal", itemCount)))>>
    ELSE <<GatherOp("oak_log", Max(2, CeilDiv(itemCount, 2)))>>

SmeltFrame(item, amount) ==
  [item |-> item, amount |-> amount, input |-> getSmeltingInput(item),
   pc |-> "furnace", todo |-> << >>, fuel |-> "", need |-> 0,
   burn |-> "", used |-> 0]

SmeltInventories ==
  {[i \in SmeltItems |->
      CASE i = "oak_log" -> l [] i = "coal" -> c [] i = "charcoal" -> h
        [] i = "oak_planks" -> p [] i = "stick" -> s [] i = "raw_iron" -> r
        [] OTHER -> 0] :
     l \in 0..MaxSmeltLogs, c \in 0..MaxFuelHeld, h \in 0..MaxFuelHeld,
     p \in 0..MaxFuelHeld, s \in 0..MaxFuelHeld, r \in 0..MaxFuelHeld}

SmtInit ==
  /\ sinv \in SmeltInventories
  /\ coalNear \in BOOLEAN
  /\ sstack = << >>
  /\ sshort = FALSE
  /\ sstatus = "idle"

SmtIdle ==
  /\ sinv = << >> /\ coalNear = FALSE /\ sstack = << >>
  /\ sshort = FALSE /\ sstatus = "idle"

STop == sstack[Len(sstack)]
SetSTop(f) == sstack' = [sstack EXCEPT ![Len(sstack)] = f]
SmeltAt(pc) == sstatus = "run" /\ sstack # << >> /\ STop.pc = pc

\* An exception: nothing between smeltItem and its top-level caller catches.
SmeltThrow == sstack' = << >> /\ sstatus' = "error"

\* A top-level smeltItem(itemName, amount) call, lines 298-308.
SmeltItem ==
  /\ sstatus = "idle"
  /\ \E item \in {"iron_ingot", "charcoal", "stick"}, amount \in 1..MaxAmount :
       IF isSmeltable(item)
         THEN sstack' = <<SmeltFrame(item, amount)>> /\ sstatus' = "run"
         ELSE SmeltThrow
  /\ UNCHANGED <<sinv, coalNear, sshort>>
  /\ UNCHANGED otherThanSmt

\* smeltItem, lines 310-313: ensureFurnaceAccess hands back a furnace or throws.
EnsureFurnaceAccess ==
  /\ SmeltAt("furnace")
  /\ \/ SetSTop([STop EXCEPT !.pc = "input"]) /\ UNCHANGED sstatus
     \/ SmeltThrow
  /\ UNCHANGED <<sinv, coalNear, sshort>>
  /\ UNCHANGED otherThanSmt

\* ensureInputMaterials, lines 380-400, with gatherInputMaterial, lines
\* 405-442: what is missing of the input is mined.
EnsureInputMaterials ==
  /\ SmeltAt("input")
  /\ LET needed == STop.amount - sinv[STop.input]
     IN  IF needed <= 0
           THEN UNCHANGED <<sinv, sshort>>
           ELSE \E got \in MineOutcomes(needed) :
                  /\ sinv' = [sinv EXCEPT ![STop.input] = @ + got]
                  /\ sshort' = (sshort \/ got < needed)
  /\ SetSTop([STop EXCEPT !.pc = "back1"])
  /\ UNCHANGED <<coalNear, sstatus>>
  /\ UNCHANGED otherThanSmt

\* returnToFurnace, lines 345-375 (smeltItem lines 320 and 327): the bot is
\* back at a furnace, or ensureFurnaceAccess throws.
ReturnToFurnace ==
  /\ SmeltAt("back1") \/ SmeltAt("back2")
  /\ \/ /\ SetSTop([STop EXCEPT !.pc = IF @ = "back1" THEN "fuel" ELSE "perform"])
        /\ UNCHANGED sstatus
     \/ SmeltThrow
  /\ UNCHANGED <<sinv, coalNear, sshort>>
  /\ UNCHANGED otherThanSmt

\* ensureFuel, lines 447-473: the best held fuel is enough, or more of it is
\* gathered, or (no fuel held) the default fuel is gathered.
EnsureFuel ==
  /\ SmeltAt("fuel")
  /\ LET best == getBestAvailableFuel(sinv)
         need == calculateFuelNeeded(best, STop.amount)
     IN  IF best # ""
           THEN IF sinv[best] >= need
                  THEN SetSTop([STop EXCEPT !.pc = "back2", !.fuel = best, !.need = need])
                  ELSE SetSTop([STop EXCEPT !.pc = "gather", !.fuel = best, !.need = need,
                                            !.todo = <<GatherOp(best, need - sinv[best])>>])
           ELSE SetSTop([STop EXCEPT !.pc = "gather",
                                     !.todo = gatherDefaultFuel(STop.amount, coalNear)])
  /\ UNCHANGED <<sinv, coalNear, sshort, sstatus>>
  /\ UNCHANGED otherThanSmt

NextOp == Head(STop.todo)
GatherAt(op) == SmeltAt("gather") /\ STop.todo # << >> /\ NextOp.op = op

\* gatherFuel is entered, lines 509-563: its calls are queued in order, or it
\* throws for a fuel it has no branch for.
GatherFuelCall ==
  /\ GatherAt("gather")
  /\ LET calls == gatherFuel(NextOp.item, NextOp.n)
     IN  IF calls[1].op = "throw"
           THEN SmeltThrow
           ELSE /\ SetSTop([STop EXCEPT !.todo = calls \o Tail(@)])
                /\ UNCHANGED sstatus
  /\ UNCHANGED <<sinv, coalNear, sshort>>
  /\ UNCHANGED otherThanSmt

\* gatherFuel, lines 513-518 and 534-539: coal ore or logs are mined.
GatherFuelMine ==
  /\ GatherAt("mine")
  /\ \E got \in MineOutcomes(NextOp.n) :
       /\ sinv' = [sinv EXCEPT ![NextOp.item] = @ + got]
       /\ sshort' = (sshort \/ got < NextOp.n)
  /\ SetSTop([STop EXCEPT !.todo = Tail(@)])
  /\ UNCHANGED <<coalNear, sstatus>>
  /\ UNCHANGED otherThanSmt

\* The ingredient one craft of a wooden fuel takes.
FuelIngredient(item) ==
  IF item = "stick" THEN [item |-> "oak_planks", n |-> 2]
                    ELSE [item |-> "oak_log", n |-> 1]

\* gatherFuel, lines 546-548 and 557-559: craftItem(fuel, count: amount) makes
\* up to `amount` crafts of four units each, taking the ingredient it finds
\* held (it gathers the rest itself), or throws when it crafted nothing.
GatherFuelCraft ==
  /\ GatherAt("craft")
  /\ \/ /\ \E crafted \in MineOutcomes(NextOp.n) \ {0} :
             LET ing == FuelIngredient(NextOp.item)
             IN  /\ sinv' = [sinv EXCEPT
                               ![ing.item] = @ - Min(@, ing.n * crafted),
                               ![NextOp.item] = @ + 4 * crafted]
                 /\ sshort' = (sshort \/ crafted < NextOp.n)
        /\ SetSTop([STop EXCEPT !.todo = Tail(@)])
        /\ UNCHANGED sstatus
     \/ SmeltThrow /\ UNCHANGED <<sinv, sshort>>
  /\ UNCHANGED coalNear
  /\ UNCHANGED otherThanSmt

\* gatherFuel, line 526: returnToFurnace before the charcoal is smelted.
GatherFuelBack ==
  /\ GatherAt("back")
  /\ \/ SetSTop([STop EXCEPT !.todo = Tail(@)]) /\ UNCHANGED sstatus
     \/ SmeltThrow
  /\ UNCHANGED <<sinv, coalNear, sshort>>
  /\ UNCHANGED otherThanSmt

\* gatherFuel, line 529: the nested smeltItem('charcoal', amount) call.
GatherFuelSmelt ==
  /\ GatherAt("smelt")
  /\ Len(sstack) < MaxSmeltDepth
  /\ sstack' = [sstack EXCEPT ![Len(sstack)].todo = Tail(@)]
                 \o <<SmeltFrame(NextOp.item, NextOp.n)>>
  /\ UNCHANGED <<sinv, coalNear, sshort, sstatus>>
  /\ UNCHANGED otherThanSmt

\* ensureFuel returns after its gatherFuel / gatherDefaultFuel call.
GatherFuelDone ==
  /\ SmeltAt("gather")
  /\ STop.todo = << >>
  /\ SetSTop([STop EXCEPT !.pc = "back2"])
  /\ UNCHANGED <<sinv, coalNear, sshort, sstatus>>
  /\ UNCHANGED otherThanSmt

\* performSmelting, lines 591-630: the furnace is opened, the fuel is chosen
\* from the inventory as it is, then the input and the fuel are put in.
LoadFurnace ==
  /\ SmeltAt("perform")
  /\ LET best == getBestAvailableFuel(sinv)
         fuelToUse == Min(calculateFuelNeeded(best, STop.amount), sinv[best])
         loaded == [sinv EXCEPT ![STop.input] = @ - STop.amount]
     IN  \/ SmeltThrow /\ UNCHANGED sinv                \* openFurnace, lines 610, 616
         \/ /\ sinv[STop.input] > 0 /\ best # ""
            /\ IF sinv[STop.input] < STop.amount
                 THEN SmeltThrow /\ UNCHANGED sinv      \* putInput
                 ELSE IF loaded[best] < fuelToUse
                   THEN SmeltThrow /\ sinv' = loaded    \* putFuel
                   ELSE /\ sinv' = [loaded EXCEPT ![best] = @ - fuelToUse]
                        /\ SetSTop([STop EXCEPT !.pc = "wait", !.burn = best,
                                                !.used = fuelToUse])
                        /\ UNCHANGED sstatus
  /\ UNCHANGED <<coalNear, sshort>>
  /\ UNCHANGED otherThanSmt

\* performSmelting, lines 633-649, and smeltItem, lines 332-339: the wait
\* ends, the output is taken and the call returns; or the wait rejects.
FinishSmelting ==
  /\ SmeltAt("wait")
  /\ \/ /\ calculateSmeltableItems(STop.burn, STop.used) >= STop.amount
        /\ sinv' = [sinv EXCEPT ![STop.item] = @ + STop.amount]
        /\ IF Len(sstack) = 1
             THEN sstack' = << >> /\ sstatus' = "ok"
             ELSE sstack' = SubSeq(sstack, 1, Len(sstack) - 1) /\ UNCHANGED sstatus
     \/ SmeltThrow /\ UNCHANGED sinv
  /\ UNCHANGED <<coalNear, sshort>>
  /\ UNCHANGED otherThanSmt
(***************************************************************************)
(* Part 5.  mine() of actions/mine.js with the tool validator              *)
(* (utils/toolValidator.js).                                               *)
(***************************************************************************)
MaxMineCount == 2    \* largest count of a mine request
MaxHeld == 2         \* most items held when the request arrives
MaxCollected == 3    \* most items held after picking items up

MineBlocks == {"dirt", "oak_log", "stone", "iron_ore", "diamond_ore", "obsidian",
               "bedrock"}

MineItems == {"wooden_pickaxe", "stone_pickaxe", "iron_pickaxe", "diamond_pickaxe",
              "golden_pickaxe", "wooden_axe", "cobblestone"}

TIER_ORDER == <<"wooden", "stone", "iron", "diamond", "netherite">>

\* String.includes on the item names above: the words a name contains.
WordsIn(name) ==
  CASE name = "wooden_pickaxe" -> {"wooden", "pickaxe", "axe"}
    [] name = "stone_pickaxe" -> {"stone", "pickaxe", "axe"}
    [] name = "iron_pickaxe" -> {"iron", "pickaxe", "axe"}
    [] name = "diamond_pickaxe" -> {"diamond", "pickaxe", "axe"}
    [] name = "golden_pickaxe" -> {"golden", "pickaxe", "axe"}
    [] name = "wooden_axe" -> {"wooden", "axe"}
    [] name = "cobblestone" -> {"stone"}
    [] name = "netherite_axe" -> {"netherite", "axe"}
    [] name = "golden_sword" -> {"golden", "sword"}
    [] name = "diamond_sword" -> {"diamond", "sword"}
    [] name = "wooden_sword" -> {"wooden", "sword"}
    [] OTHER -> {}

Includes(name, word) == word \in WordsIn(name)

\* The kind of tool an item is, "" for an item that is no tool.
ToolKind(name) ==
  IF Includes(name, "pickaxe") THEN "pickaxe"
  ELSE IF Includes(name, "axe") THEN "axe"
  ELSE ""

\* BLOCK_TOOL_REQUIREMENTS with getRequiredToolTier, lines 249-259: a block
\* without an entry gets tier 'none', tool 'any'.
getRequiredToolTier(blockName) ==
  CASE blockName = "dirt" -> [tier |-> "none", tool |-> "any"]
    [] blockName = "oak_log" -> [tier |-> "none", tool |-> "axe"]
    [] blockName = "stone" -> [tier |-> "wooden", tool |-> "pickaxe"]
    [] blockName = "iron_ore" -> [tier |-> "stone", tool |-> "pickaxe"]
    [] blockName = "diamond_ore" -> [tier |-> "iron", tool |-> "pickaxe"]
    [] blockName = "obsidian" -> [tier |-> "diamond", tool |-> "pickaxe"]
    [] OTHER -> [tier |-> "none", tool |-> "any"]

HasRequirementEntry(blockName) == blockName \in MineBlocks \ {"bedrock"}

\* TIER_ORDER.indexOf(tier), counted from 1; 0 when absent.
TierIndexOf(tier) ==
  IF \E i \in 1..Len(TIER_ORDER) : TIER_ORDER[i] = tier
    THEN CHOOSE i \in 1..Len(TIER_ORDER) : TIER_ORDER[i] = tier
    ELSE 0

\* The inner loop of hasAdequateTool, lines 339-361: the first tier of
\* TIER_ORDER that the tool's name contains; 0 when it contains none.
ToolTier(name) ==
  IF \E i \in 1..Len(TIER_ORDER) : Includes(name, TIER_ORDER[i])
    THEN CHOOSE i \in 1..Len(TIER_ORDER) :
           /\ Includes(name, TIER_ORDER[i])
           /\ \A j \in 1..(i - 1) : ~Includes(name, TIER_ORDER[j])
    ELSE 0

\* The tool crafted when none is adequate: `${tier}_${tool}`.
RequiredTool(requirement) ==
  CASE requirement.tier = "wooden" -> "wooden_pickaxe"
    [] requirement.tier = "stone" -> "stone_pickaxe"
    [] requirement.tier = "iron" -> "iron_pickaxe"
    [] OTHER -> "diamond_pickaxe"

\* hasAdequateTool, lines 265-388: hasTooling of its result.
hasAdequateToolAll(held, blockName) ==
  LET requirement == getRequiredToolTier(blockName)
      matchingTools == {t \in held : Includes(t, requirement.tool)}
  IN  \/ requirement.tier = "none"
      \/ /\ TierIndexOf(requirement.tier) # 0
         /\ matchingTools # {}
         /\ \A t \in matchingTools : ToolTier(t) >= TierIndexOf(requirement.tier)
hasAdequateTool(held, blockName) ==
  LET requirement == getRequiredToolTier(blockName)
      matchingTools == {t \in held : Includes(t, requirement.tool)}
  IN  \/ requirement.tier = "none"
      \/ /\ TierIndexOf(requirement.tier) # 0
         /\ \E t \in matchingTools :
              ToolTier(t) # 0 /\ ToolTier(t) >= TierIndexOf(requirement.tier)

\* getTierScore, lines 438-445, counted from 1; 0 for the source's -1.
getTierScore(itemName) == ToolTier(itemName)

\* selectBestTool, lines 418-433: the first tool of the list with the highest
\* score.  The order of bot.inventory.items() is not modelled, so every tool
\* with the highest score may be the one returned; {} stands for null.
selectBestTool(tools) ==
  {t \in tools : \A u \in tools : getTierScore(u) <= getTierScore(t)}

\* getBestToolForBlock, lines 393-413.
getBestToolForBlock(held, blockName) ==
  LET requirement == getRequiredToolTier(blockName)
  IN  IF requirement.tier = "none" /\ requirement.tool = "any" THEN {}
      ELSE selectBestTool({t \in held : Includes(t, requirement.tool)})

NoMineResult == [success |-> FALSE, minedCount |-> 0]

MineIdle ==
  /\ minv = {} /\ mtask = << >>
  /\ mpc = "idle" /\ mresult = << >> /\ mequipped = ""

MineInit ==
  /\ minv \in {h \in SUBSET MineItems : Cardinality(h) <= MaxHeld}
  /\ mtask = [block |-> "none", count |-> 0, i |-> 0, mined |-> 0]
  /\ mpc = "idle"
  /\ mresult = NoMineResult
  /\ mequipped = ""

MineReturn == mpc' = "done" /\ mresult' = [success |-> TRUE, minedCount |-> mtask.mined]

\* mine(bot, {blockType, count}), lines 11-25: the call up to the loop.
Mine(blockType, count) ==
  /\ mpc = "idle"
  /\ mtask' = [block |-> blockType, count |-> count, i |-> 0, mined |-> 0]
  /\ mpc' = "find"
  /\ UNCHANGED <<minv, mresult, mequipped>>
  /\ UNCHANGED otherThanMin

\* Lines 28-36: bot.findBlock; no block ends the loop with break.
FindBlock ==
  /\ mpc = "find"
  /\ \/ mpc' = "equip1" /\ UNCHANGED mresult
     \/ MineReturn
  /\ UNCHANGED <<minv, mtask, mequipped>>
  /\ UNCHANGED otherThanMin

\* equipBestToolForBlock, lines 79-132, called at lines 39 and 52: when no
\* adequate tool is held the required tool is crafted, and a failure of that
\* craft is caught and logged; then the best tool is equipped, and a failure
\* of bot.equip is caught as well.  The function never throws; after the
\* second call line 55 issues bot.dig.
EquipBestToolForBlock ==
  /\ mpc \in {"equip1", "equip2"}
  /\ IF hasAdequateTool(minv, mtask.block)
       THEN UNCHANGED minv
       ELSE \/ minv' = minv \cup {RequiredTool(getRequiredToolTier(mtask.block))}
            \/ UNCHANGED minv
  /\ \/ \E bestTool \in getBestToolForBlock(minv', mtask.block) : mequipped' = bestTool
     \/ UNCHANGED mequipped
  /\ mpc' = IF mpc = "equip1" THEN "goto" ELSE "dig"
  /\ UNCHANGED <<mtask, mresult>>
  /\ UNCHANGED otherThanMin

\* Line 50: bot.pathfinder.goto resolves, or throws into the catch of line 62.
Goto ==
  /\ mpc = "goto"
  /\ \/ mpc' = "equip2" /\ UNCHANGED mresult
     \/ MineReturn
  /\ UNCHANGED <<minv, mtask, mequipped>>
  /\ UNCHANGED otherThanMin

\* Lines 55-65: bot.dig resolves and the loop goes on, or throws and the loop
\* ends.  Bedrock cannot be broken, its dig never resolves with success.
DigSettles ==
  /\ mpc = "dig"
  /\ \/ /\ mtask.block # "bedrock"
        /\ mtask' = [mtask EXCEPT !.i = @ + 1, !.mined = @ + 1]
        /\ IF mtask.i + 1 < mtask.count
             THEN mpc' = "find" /\ UNCHANGED mresult
             ELSE mpc' = "done"
                  /\ mresult' = [success |-> TRUE, minedCount |-> mtask.mined + 1]
     \/ MineReturn /\ UNCHANGED mtask
  /\ UNCHANGED <<minv, mequipped>>
  /\ UNCHANGED otherThanMin

\* An item enters bot.inventory (picked up or handed over by a player).
CollectItem(item) ==
  /\ item \notin minv
  /\ Cardinality(minv) < MaxCollected
  /\ minv' = minv \cup {item}
  /\ UNCHANGED <<mtask, mpc, mresult, mequipped>>
  /\ UNCHANGED otherThanMin

(***************************************************************************)
(* Part 6.  The placement loop of BuildExecutor.buildStructure             *)
(* (utils/buildExecutor.js, lines 157-336) over a voxel grid, with         *)
(* BlockPlacer.placeBlock and findReferenceBlock.  Every voxel of the      *)
(* blueprint is a "stone" block; the options are those of the chat build   *)
(* command (prepareGround, clearArea, no scaffolding) with layerByLayer as  *)
(* the caller passes it.  The layer below y = 0 is solid ground.            *)
(***************************************************************************)
MaxX == 1            \* largest x of the blueprint's box
MaxY == 1            \* largest y of the blueprint's box
MaxZ == 1            \* largest z of the blueprint's box
MaxBlocks == 3       \* most voxels of a blueprint
MaxBlockItems == 3   \* most stone items held when the build starts

Cells == [x : 0..MaxX, y : 0..MaxY, z : 0..MaxZ]

Range(s) == {s[i] : i \in 1..Len(s)}

RECURSIVE DistinctSeqs(_)
\* The sequences of exactly n distinct cells.
DistinctSeqs(n) ==
  IF n = 0 THEN {<< >>}
  ELSE UNION {{Append(s, c) : c \in Cells \ Range(s)} : s \in DistinctSeqs(n - 1)}

\* blueprint.blocks of the blueprints with at most n voxels.
Blueprints(n) == UNION {DistinctSeqs(k) : k \in 1..n}

\* The comparator of sortBlocksByBuildOrder, lines 522-526, is negative.
Before(a, b) ==
  \/ a.y < b.y
  \/ a.y = b.y /\ a.x < b.x
  \/ a.y = b.y /\ a.x = b.x /\ a.z < b.z

RECURSIVE InsertBlock(_, _)
InsertBlock(s, b) ==
  IF s = << >> THEN <<b>>
  ELSE IF Before(b, Head(s)) THEN <<b>> \o s
  ELSE <<Head(s)>> \o InsertBlock(Tail(s), b)

RECURSIVE SortBlocks(_)
\* Array.prototype.sort with that comparator: a stable sort.
SortBlocks(blocks) ==
  IF blocks = << >> THEN << >>
  ELSE InsertBlock(SortBlocks(SubSeq(blocks, 1, Len(blocks) - 1)), blocks[Len(blocks)])

\* sortBlocksByBuildOrder, lines 517-527.
sortBlocksByBuildOrder(blocks, byLayer) ==
  IF ~byLayer THEN blocks ELSE SortBlocks(blocks)

\* bot.blockAt: the ground below the box is solid, everything else outside
\* the box is air.
BlockAt(w, x, y, z) ==
  IF y = -1 /\ x \in 0..MaxX /\ z \in 0..MaxZ THEN "dirt"
  ELSE IF x \in 0..MaxX /\ y \in 0..MaxY /\ z \in 0..MaxZ
    THEN w[[x |-> x, y |-> y, z |-> z]]
  ELSE "air"

\* isValidSolidSupport on the block names of this model.
\* The names of invalidSupports, validSolidBlocks and of the four name
\* patterns of isValidSolidSupport that occur in a block name
\* (String.prototype.includes), for the block names of the model.
PatternsIn(name) ==
  CASE name = "air" -> {"air"}
    [] name = "torch" -> {"torch"}
    [] name = "bedrock" -> {"bed"}
    [] name = "snow_block" -> {"snow", "_block"}
    [] name = "snow" -> {"snow"}
    [] name = "grass_block" -> {"grass", "_block"}
    [] name = "grass" -> {"grass"}
    [] name = "oak_planks" -> {"_planks"}
    [] name = "oak_stairs" -> {"stairs", "air"}
    [] name = "iron_ore" -> {"_ore"}
    [] name = "stone_slab" -> {"slab", "_slab"}
    [] name = "oak_door" -> {"door"}
    [] name = "ladder" -> {"ladder"}
    [] name = "oak_log" -> {"_log"}
    [] OTHER -> {}

\* invalidSupports, part_005 lines 996-1018.
invalidSupports ==
  {"air", "water", "lava", "cave_air",
   "grass", "tall_grass", "fern", "dead_bush", "seagrass",
   "dandelion", "poppy", "blue_orchid", "allium", "azure_bluet",
   "rose_bush", "sunflower", "lilac", "peony",
   "wheat", "carrots", "potatoes", "beetroots",
   "sugar_cane", "cactus", "bamboo",
   "stairs", "slab", "door", "trapdoor", "bed",
   "fence", "gate", "ladder", "vine",
   "torch", "wall_torch", "lantern",
   "button", "lever", "pressure_plate",
   "rail", "powered_rail", "detector_rail", "activator_rail",
   "carpet", "snow", "glass_pane", "iron_bars",
   "chest", "barrel", "furnace", "crafting_table",
   "hopper", "dropper", "dispenser", "pane", "bars"}

\* validSolidBlocks, lines 1029-1036.
validSolidBlocks ==
  {"dirt", "grass_block", "stone", "cobblestone",
   "bedrock", "sand", "gravel", "sandstone",
   "netherrack", "mycelium", "podzol", "coarse_dirt",
   "clay", "terracotta", "concrete", "wool",
   "deepslate", "tuff", "dripstone_block",
   "snow_block", "ice", "packed_ice", "blue_ice"}

\* block.boundingBox as minecraft-data gives it: "block" for a block with a
\* collision box, "empty" for one without.
boundingBox(name) ==
  IF name \in {"air", "torch", "grass", "snow", "ladder"} THEN "empty" ELSE "block"

\* isValidSolidSupport, lines 992-1058, on the name of the block.
isValidSolidSupport(name) ==
  IF name = "air" THEN FALSE
  ELSE IF /\ PatternsIn(name) \cap invalidSupports # {}
          /\ name # "grass_block"
          /\ name # "snow_block"
    THEN FALSE
  ELSE IF name \in validSolidBlocks THEN TRUE
  ELSE IF \/ "_planks" \in PatternsIn(name)
          \/ "_log" \in PatternsIn(name)
          \/ "_ore" \in PatternsIn(name)
          \/ "_block" \in PatternsIn(name) /\ "_slab" \notin PatternsIn(name)
    THEN TRUE
  ELSE IF boundingBox(name) \in {"empty", "block"} THEN boundingBox(name) = "block"
  ELSE TRUE

\* findReferenceBlock, part_005 lines 935-986, normal strategy: below, east,
\* west, south, north, above.  TRUE iff a reference block is returned.
findReferenceBlock(w, c) ==
  \E d \in {<<0, -1, 0>>, <<1, 0, 0>>, <<-1, 0, 0>>, <<0, 0, 1>>, <<0, 0, -1>>, <<0, 1, 0>>} :
    isValidSolidSupport(BlockAt(w, c.x + d[1], c.y + d[2], c.z + d[3]))

Adjacent(a, b) ==
  LET dx == IF a.x > b.x THEN a.x - b.x ELSE b.x - a.x
      dy == IF a.y > b.y THEN a.y - b.y ELSE b.y - a.y
      dz == IF a.z > b.z THEN a.z - b.z ELSE b.z - a.z
  IN  dx + dy + dz = 1

RECURSIVE GroundedPart(_, _)
\* The voxels of S joined to the voxels R by face-neighbours within S.
GroundedPart(S, R) ==
  LET more == {c \in S \ R : \E r \in R : Adjacent(c, r)}
  IN  IF more = {} THEN R ELSE GroundedPart(S, R \cup more)

\* Every voxel of the blueprint is joined to a voxel that stands on the ground.
Grounded(blocks) ==
  GroundedPart(Range(blocks), {c \in Range(blocks) : c.y = 0}) = Range(blocks)

NoCounts == [placed |-> 0, failed |-> 0, skipped |-> 0, cleared |-> 0]

\* No build was asked for: no blueprint, and so no box of cells.
BldIdle ==
  /\ blueprint = << >> /\ layerByLayer = TRUE
  /\ world = << >> /\ blockItems = 0
  /\ sortedBlocks = << >> /\ bidx = 0 /\ bpc = "idle"
  /\ bcount = << >> /\ bret = "none" /\ taken = << >>
  /\ digCalled = FALSE /\ placeCalled = FALSE

\* A blueprint, the world before the build (blocks only where the blueprint
\* has voxels) and the stone items held.
BldInit ==
  /\ blueprint \in Blueprints(MaxBlocks)
  /\ layerByLayer \in BOOLEAN
  /\ world \in {[c \in Cells |-> IF c \in Range(blueprint) THEN f[c] ELSE "air"] :
                  f \in [Range(blueprint) -> {"air", "stone", "dirt"}]}
  /\ blockItems \in 0..MaxBlockItems
  /\ sortedBlocks = << >> /\ bidx = 0 /\ bpc = "idle"
  /\ bcount = NoCounts /\ bret = "none" /\ taken = << >>
  /\ digCalled = FALSE /\ placeCalled = FALSE

CurrentBlock == sortedBlocks[bidx]

\* buildStructure up to the loop, lines 185-214: the ground is solid, so
\* prepareGroundArea changes nothing; clearBuildArea (381-434) calls
\* clearBlock on every block of the box that is not air and does not match
\* the blueprint, counts it as cleared, and clearBlock (439-466) swallows a
\* failed navigation or dig.
BuildStructure ==
  /\ bpc = "idle"
  /\ LET toClear == {c \in Cells : world[c] = "dirt"}
     IN  /\ \E gone \in SUBSET toClear :
               /\ world' = [c \in Cells |-> IF c \in gone THEN "air" ELSE world[c]]
               /\ digCalled' = (gone # {})
         /\ bcount' = [NoCounts EXCEPT !.cleared = Cardinality(toClear)]
  /\ sortedBlocks' = sortBlocksByBuildOrder(blueprint, layerByLayer)
  /\ bidx' = 1
  /\ bpc' = "loop"
  /\ UNCHANGED <<blueprint, layerByLayer, blockItems, bret, taken, placeCalled>>
  /\ UNCHANGED otherThanBld

\* One pass of the loop of lines 217-267 up to the call of placeBlock:
\* ensureBlockAvailable (545-552) first, then the test for a matching block.
BuildLoop ==
  /\ bpc = "loop"
  /\ IF bidx > Len(sortedBlocks)
       THEN /\ bpc' = "done" /\ bret' = "completed"
            /\ UNCHANGED <<bidx, bcount, taken>>
       ELSE /\ taken' = Append(taken, CurrentBlock)
            /\ IF blockItems = 0
                 THEN /\ bcount' = [bcount EXCEPT !.skipped = @ + 1]
                      /\ bpc' = "done" /\ bret' = "missing_items"
                      /\ UNCHANGED bidx
                 ELSE IF world[CurrentBlock] = "stone"
                 THEN /\ bcount' = [bcount EXCEPT !.skipped = @ + 1]
                      /\ bidx' = bidx + 1
                      /\ UNCHANGED <<bpc, bret>>
                 ELSE /\ bpc' = "place"
                      /\ UNCHANGED <<bidx, bcount, bret>>
  /\ UNCHANGED <<blueprint, layerByLayer, world, blockItems, sortedBlocks,
                 digCalled, placeCalled>>
  /\ UNCHANGED otherThanBld

\* placeBlock, part_005 lines 762-856, with the accounting of buildExecutor.js
\* lines 269-300: a block in the way is broken (breakBlock swallows a
\* failure), then navigation, equipping, the reference block, bot.placeBlock
\* and the verification each succeed or make the attempt fail; after the last
\* attempt the voxel counts as failed.
PlaceBlock ==
  /\ bpc = "place"
  /\ \E broken \in BOOLEAN :
       LET c == CurrentBlock
           inWay == world[c] # "air"
           w == IF inWay /\ broken THEN [world EXCEPT ![c] = "air"] ELSE world
       IN  /\ inWay \/ ~broken
           /\ digCalled' = (digCalled \/ inWay)
           /\ \/ /\ w[c] = "air"
                 /\ findReferenceBlock(w, c)
                 /\ world' = [w EXCEPT ![c] = "stone"]
                 /\ blockItems' = blockItems - 1
                 /\ bcount' = [bcount EXCEPT !.placed = @ + 1]
                 /\ placeCalled' = TRUE
              \/ /\ world' = w
                 /\ bcount' = [bcount EXCEPT !.failed = @ + 1]
                 /\ \/ findReferenceBlock(w, c) /\ placeCalled' = TRUE
                    \/ UNCHANGED placeCalled
                 /\ UNCHANGED blockItems
  /\ bidx' = bidx + 1
  /\ bpc' = "loop"
  /\ UNCHANGED <<blueprint, layerByLayer, sortedBlocks, bret, taken>>
  /\ UNCHANGED otherThanBld

(***************************************************************************)
(* Part 7.  SmeltingManager.waitForSmelting (utils/furnaceManager.js,      *)
(* lines 665-720): one promise, three timers and the furnace's 'update'    *)
(* listener.  Time is counted in milliseconds on a grid of half the        *)
(* completion delay; a timer is a deadline, NoTimer when it is not set.    *)
(***************************************************************************)
MaxExpected == 2          \* largest expectedCount of a wait

MaxTimeoutMs == 300000
UpdateTimeoutMs == 30000
CompletionTimeoutMs == 2000

Tick == CompletionTimeoutMs \div 2
Horizon == MaxTimeoutMs + CompletionTimeoutMs
Instants == {k * Tick : k \in 0..(Horizon \div Tick)}

NoTimer == -1
NoTimers == [update |-> NoTimer, completion |-> NoTimer, max |-> NoTimer]

WaitIdle ==
  /\ wnow = 0 /\ wexpected = 0 /\ woutput = 0 /\ wsmelted = 0
  /\ wtimers = << >> /\ wlistener = FALSE
  /\ wstatus = "idle" /\ wsettles = 0 /\ wstale = 0 /\ wlate = FALSE

\* The furnace is open and loaded; its output slot may still hold items.
WaitInit ==
  /\ wnow = 0 /\ wexpected = 0 /\ woutput \in 0..MaxExpected /\ wsmelted = 0
  /\ wtimers = NoTimers /\ wlistener = FALSE
  /\ wstatus = "idle" /\ wsettles = 0 /\ wstale = 0 /\ wlate = FALSE

\* clearTimeout inside cleanup, lines 680-682.
clearTimeoutSkipped(timer) == timer
clearTimeout(timer) == NoTimer

\* cleanup, lines 679-684: every timer is cleared, the listener removed.
cleanup(timers) ==
  [update |-> clearTimeout(timers.update),
   completion |-> clearTimeout(timers.completion),
   max |-> clearTimeout(timers.max)]

\* The 'update' handler, lines 686-715, run at time t with the timers given
\* and count items in the output slot: the new timers.
OnUpdateTimers(timers, smelted, expected, t) ==
  IF smelted >= expected
    THEN [timers EXCEPT !.update = NoTimer, !.completion = t + CompletionTimeoutMs]
    ELSE [timers EXCEPT !.update = t + UpdateTimeoutMs]

\* resolve or reject of the promise: only the first call settles it.
Settle(outcome) ==
  /\ wsettles' = wsettles + 1
  /\ IF wstatus = "pending"
       THEN wstatus' = outcome /\ wlate' = (wnow > MaxTimeoutMs)
       ELSE UNCHANGED <<wstatus, wlate>>

\* waitForSmelting(furnace, expectedCount), lines 665-719: the promise's
\* executor sets maxTimeout, registers the listener and emits the initial
\* 'update', whose handler runs at once.
WaitForSmelting(expectedCount) ==
  /\ wstatus = "idle"
  /\ wexpected' = expectedCount
  /\ wstatus' = "pending"
  /\ wlistener' = TRUE
  /\ wsmelted' = woutput
  /\ wstale' = 0
  /\ wtimers' = OnUpdateTimers([NoTimers EXCEPT !.max = wnow + MaxTimeoutMs],
                               woutput, expectedCount, wnow)
  /\ UNCHANGED <<wnow, woutput, wsettles, wlate>>
  /\ UNCHANGED otherThanWait

\* The furnace emits 'update' with count items in its output slot (the count
\* never falls while the wait lasts); the handler runs if it is registered.
FurnaceUpdate(count) ==
  /\ wstatus # "idle"
  /\ count >= woutput
  /\ woutput' = count
  /\ IF wlistener
       THEN LET smelted == IF count > wsmelted THEN count ELSE wsmelted
            IN  /\ wsmelted' = smelted
                /\ wstale' = IF count > wsmelted THEN 0 ELSE wstale
                /\ wtimers' = OnUpdateTimers(wtimers, smelted, wexpected, wnow)
       ELSE UNCHANGED <<wsmelted, wstale, wtimers>>
  /\ UNCHANGED <<wnow, wexpected, wlistener, wstatus, wsettles, wlate>>
  /\ UNCHANGED otherThanWait

TimerDue(deadline) == deadline # NoTimer /\ deadline = wnow

\* The callback of maxTimeout, lines 674-677.
MaxTimeoutFires ==
  /\ TimerDue(wtimers.max)
  /\ wtimers' = cleanup([wtimers EXCEPT !.max = NoTimer])
  /\ wlistener' = FALSE
  /\ Settle("rejected_timeout")
  /\ UNCHANGED <<wnow, wexpected, woutput, wsmelted, wstale>>
  /\ UNCHANGED otherThanWait

\* The callback of updateTimeout, lines 710-713.
UpdateTimeoutFires ==
  /\ TimerDue(wtimers.update)
  /\ wtimers' = cleanup([wtimers EXCEPT !.update = NoTimer])
  /\ wlistener' = FALSE
  /\ Settle("rejected_stalled")
  /\ UNCHANGED <<wnow, wexpected, woutput, wsmelted, wstale>>
  /\ UNCHANGED otherThanWait

\* The callback of completionTimeout, lines 703-707.
CompletionTimeoutFires ==
  /\ TimerDue(wtimers.completion)
  /\ wtimers' = cleanup([wtimers EXCEPT !.completion = NoTimer])
  /\ wlistener' = FALSE
  /\ Settle("resolved")
  /\ UNCHANGED <<wnow, wexpected, woutput, wsmelted, wstale>>
  /\ UNCHANGED otherThanWait

PendingTimers == {wtimers.update, wtimers.completion, wtimers.max} \ {NoTimer}

\* The time without progress is counted up to just beyond the window.
StaleCap == UpdateTimeoutMs + Tick

\* Time passes by one tick or up to the next deadline, never beyond the
\* deadline of a timer that is set.
TimePasses(t) ==
  /\ wstatus # "idle"
  /\ t > wnow
  /\ t = wnow + Tick \/ t \in PendingTimers
  /\ \A d \in PendingTimers : t <= d
  /\ wnow' = t
  /\ wstale' = IF wstale + (t - wnow) > StaleCap THEN StaleCap
               ELSE wstale + (t - wnow)
  /\ UNCHANGED <<wexpected, woutput, wsmelted, wtimers, wlistener, wstatus,
                 wsettles, wlate>>
  /\ UNCHANGED otherThanWait


(***************************************************************************)
(* Part 8.  One column of a build site: prepareGroundArea, clearBuildArea  *)
(* and the placement loop of BuildExecutor.buildStructure                  *)
(* (utils/buildExecutor.js, lines 185-305 and 352-512) with the attempts   *)
(* of BlockPlacer.placeBlock and placeScaffolding (blockPlacer.js, lines   *)
(* 762-856 and 1321-1345).  The column is the cell under the origin and    *)
(* the SiteHeight cells of the blueprint box above it; around the column   *)
(* the terrain is dirt below the origin and air from the origin upwards.   *)
(* Every block of the blueprint is clay, and a held item never runs out.   *)
(***************************************************************************)
SiteHeight == 2

\* The default maxRetries of placeBlock (line 762) and the maxRetries
\* placeScaffolding passes (line 1337).
MaxRetries == 3
ScaffoldRetries == 2

SiteBlocks == {"air", "dirt", "clay", "torch"}
BoxCells(height) == 0..(height - 1)
SiteCells(height) == (-1)..(height - 1)

\* A position of the column as a Vec3.
SiteCell(y) == <<0, y, 0>>

\* bot.blockAt.
siteBlockAt(w, c) ==
  IF c[1] = 0 /\ c[3] = 0 /\ c[2] \in DOMAIN w THEN w[c[2]]
  ELSE IF c[2] < 0 THEN "dirt"
  ELSE "air"

\* isSolidGround, buildExecutor.js lines 500-512.
isSolidGround(name) == name \in {"dirt", "stone"}

\* isReplaceable, blockPlacer.js lines 1060-1077.
isReplaceable(name) == name \in {"grass", "fern", "vine", "snow"}

\* The search order of findReferenceBlock for the normal strategy, lines
\* 958-966: below, east, west, south, north, above.
searchOrder ==
  << <<0, -1, 0>>, <<1, 0, 0>>, <<-1, 0, 0>>, <<0, 0, 1>>, <<0, 0, -1>>, <<0, 1, 0>> >>

Offset(c, vec) == <<c[1] + vec[1], c[2] + vec[2], c[3] + vec[3]>>

NoBlock == << >>

\* findReferenceBlock, lines 935-986, returning the position of the block it
\* returns: the first block of the search order that is a valid solid
\* support, NoBlock for null.
findReferenceBlockAnyBlock(w, pos) ==
  LET found == {i \in DOMAIN searchOrder :
                  siteBlockAt(w, Offset(pos, searchOrder[i])) # "air"}
  IN  IF found = {} THEN NoBlock
      ELSE Offset(pos, searchOrder[CHOOSE i \in found : \A j \in found : i <= j])
findReferenceBlockAt(w, pos) ==
  LET found == {i \in DOMAIN searchOrder :
                  isValidSolidSupport(siteBlockAt(w, Offset(pos, searchOrder[i])))}
  IN  IF found = {} THEN NoBlock
      ELSE Offset(pos, searchOrder[CHOOSE i \in found : \A j \in found : i <= j])

\* The test of clearBuildArea, lines 401-411, for the block of the world and
\* the name of the blueprint block of the cell ("none" when it has none).
shouldClearAnyBlock(name, targetName) == name # "air"
shouldClear(name, targetName) == name # "air" /\ name # targetName

\* The reasons placeBlock reports: the message of the last error.
NoReference == "No valid reference block (need solid cube)"
CannotReach == "Cannot reach"
CannotEquip == "Cannot equip"
NotPlaced == "Verification failed"

NoCall ==
  [caller |-> "none", blockName |-> "none", pos |-> 0, attempt |-> 0,
   maxRetries |-> 0, ref |-> NoBlock]

\* The entry of placeBlock(blockName, pos, {}, maxRetries), lines 762-767.
CallPlaceBlock(caller, blockName, pos, maxRetries) ==
  [caller |-> caller, blockName |-> blockName, pos |-> pos, attempt |-> 1,
   maxRetries |-> maxRetries, ref |-> NoBlock]

NoSiteCounts == [placed |-> 0, failed |-> 0, skipped |-> 0, cleared |-> 0]

SiteIdle ==
  /\ siteWorld = << >> /\ siteTarget = << >> /\ siteItems = {}
  /\ siteOptions = << >>
  /\ sitePc = "idle" /\ siteIdx = 0 /\ siteCount = << >>
  /\ pcall = << >> /\ siteDug = {}

\* buildStructure is entered with a blueprint, the options of lines 190-198
\* and the items ensureBlockAvailable will look for.
SiteInit ==
  /\ siteWorld \in [SiteCells(SiteHeight) -> SiteBlocks]
  /\ siteTarget \in [BoxCells(SiteHeight) -> {"none", "clay"}]
  /\ siteItems \in {{}, {"clay"}, {"clay", "dirt"}}
  /\ siteOptions \in [scaffolding : BOOLEAN, prepareGround : BOOLEAN, clearArea : BOOLEAN]
  /\ sitePc = "idle" /\ siteIdx = 0 /\ siteCount = NoSiteCounts
  /\ pcall = NoCall /\ siteDug = {}

\* buildStructure, lines 185-200, up to the ground preparation.
SiteBuildStructure ==
  /\ sitePc = "idle"
  /\ sitePc' = "ground"
  /\ UNCHANGED <<siteWorld, siteTarget, siteItems, siteOptions, siteIdx, siteCount,
                 pcall, siteDug>>
  /\ UNCHANGED otherThanSite

\* prepareGroundArea, lines 352-376, with fillGroundBlock, lines 471-495: a
\* foundation cell that is not solid ground is filled with the first held
\* fill material by a call of placeBlock.
PrepareGroundArea ==
  /\ sitePc = "ground"
  /\ IF /\ siteOptions.prepareGround
        /\ ~isSolidGround(siteWorld[-1])
        /\ "dirt" \in siteItems
       THEN /\ sitePc' = "place"
            /\ pcall' = CallPlaceBlock("ground", "dirt", -1, MaxRetries)
       ELSE /\ sitePc' = "clear"
            /\ UNCHANGED pcall
  /\ UNCHANGED <<siteWorld, siteTarget, siteItems, siteOptions, siteIdx, siteCount,
                 siteDug>>
  /\ UNCHANGED otherThanSite

\* One pass of the loops of clearBuildArea, lines 381-434, with clearBlock,
\* lines 439-466: the bot may fail to reach the block, and bot.dig may fail;
\* clearBlock swallows both, and the cell is counted as cleared.  siteDug
\* records the cells whose block bot.dig removed.
ClearBuildArea ==
  /\ sitePc = "clear"
  /\ IF ~siteOptions.clearArea \/ siteIdx >= SiteHeight
       THEN /\ sitePc' = "loop" /\ siteIdx' = 0
            /\ UNCHANGED <<siteWorld, siteCount, siteDug>>
       ELSE /\ siteIdx' = siteIdx + 1
            /\ UNCHANGED sitePc
            /\ IF shouldClear(siteWorld[siteIdx], siteTarget[siteIdx])
                 THEN /\ siteCount' = [siteCount EXCEPT !.cleared = @ + 1]
                      /\ \/ UNCHANGED <<siteWorld, siteDug>>
                         \/ /\ siteDug' = siteDug \cup
                                 {[cell |-> SiteCell(siteIdx), name |-> siteWorld[siteIdx],
                                   targetName |-> siteTarget[siteIdx]]}
                            /\ siteWorld' = [siteWorld EXCEPT ![siteIdx] = "air"]
                 ELSE UNCHANGED <<siteWorld, siteCount, siteDug>>
  /\ UNCHANGED <<siteTarget, siteItems, siteOptions, pcall>>
  /\ UNCHANGED otherThanSite

\* One pass of the placement loop, lines 217-275, up to the call of
\* placeBlock.
SiteLoop ==
  /\ sitePc = "loop"
  /\ IF siteIdx >= SiteHeight
       THEN /\ sitePc' = "done"
            /\ UNCHANGED <<siteIdx, siteCount, pcall>>
       ELSE IF siteTarget[siteIdx] = "none"
       THEN /\ siteIdx' = siteIdx + 1
            /\ UNCHANGED <<sitePc, siteCount, pcall>>
       ELSE IF siteTarget[siteIdx] \notin siteItems
       THEN /\ siteCount' = [siteCount EXCEPT !.skipped = @ + 1]
            /\ sitePc' = "done"
            /\ UNCHANGED <<siteIdx, pcall>>
       ELSE IF siteWorld[siteIdx] = siteTarget[siteIdx]
       THEN /\ siteCount' = [siteCount EXCEPT !.skipped = @ + 1]
            /\ siteIdx' = siteIdx + 1
            /\ UNCHANGED <<sitePc, pcall>>
       ELSE /\ sitePc' = "place"
            /\ pcall' = CallPlaceBlock("main", siteTarget[siteIdx], siteIdx, MaxRetries)
            /\ UNCHANGED <<siteIdx, siteCount>>
  /\ UNCHANGED <<siteWorld, siteTarget, siteItems, siteOptions, siteDug>>
  /\ UNCHANGED otherThanSite

\* The retry of lines 292-293: placeBlock with the default maxRetries.
RetryPlacement == CallPlaceBlock("retry", siteTarget[siteIdx], siteIdx, MaxRetries)

\* placeBlock returns to its caller: fillGroundBlock (lines 484-486), the
\* placement loop (lines 275-299), placeScaffolding (lines 1336-1339) or the
\* retry of the placement loop (lines 293-297).
PlaceBlockReturns(success, placed, reason) ==
  CASE pcall.caller = "ground" ->
         /\ sitePc' = "clear" /\ pcall' = NoCall
         /\ UNCHANGED <<siteIdx, siteCount>>
    [] pcall.caller = "main" /\ success ->
         /\ siteCount' = IF placed THEN [siteCount EXCEPT !.placed = @ + 1]
                                   ELSE [siteCount EXCEPT !.skipped = @ + 1]
         /\ sitePc' = "loop" /\ siteIdx' = siteIdx + 1 /\ pcall' = NoCall
    [] pcall.caller = "main" /\ ~success ->
         /\ siteCount' = [siteCount EXCEPT !.failed = @ + 1]
         /\ IF siteOptions.scaffolding /\ reason = NoReference
              THEN /\ sitePc' = "place"
                   /\ UNCHANGED siteIdx
                   /\ IF /\ ~isValidSolidSupport(siteBlockAt(siteWorld', SiteCell(pcall.pos - 1)))
                         /\ "dirt" \in siteItems
                        THEN pcall' = CallPlaceBlock("scaffold", "dirt", pcall.pos - 1,
                                                     ScaffoldRetries)
                        ELSE pcall' = RetryPlacement
              ELSE sitePc' = "loop" /\ siteIdx' = siteIdx + 1 /\ pcall' = NoCall
    [] pcall.caller = "scaffold" ->
         /\ pcall' = RetryPlacement
         /\ sitePc' = "place"
         /\ UNCHANGED <<siteIdx, siteCount>>
    [] pcall.caller = "retry" ->
         /\ siteCount' = IF success
                           THEN [siteCount EXCEPT !.placed = @ + 1, !.failed = @ - 1]
                           ELSE siteCount
         /\ sitePc' = "loop" /\ siteIdx' = siteIdx + 1 /\ pcall' = NoCall

\* The catch block of placeBlock, lines 841-855.
PlaceBlockCatches(reason) ==
  IF pcall.attempt < pcall.maxRetries
    THEN /\ pcall' = [pcall EXCEPT !.attempt = @ + 1, !.ref = NoBlock]
         /\ sitePc' = "place"
         /\ UNCHANGED <<siteIdx, siteCount>>
    ELSE PlaceBlockReturns(FALSE, FALSE, reason)

\* An attempt of placeBlock up to the reference block, lines 769-819: a block
\* in the way is broken (breakBlock swallows a failure), then navigation,
\* equipping and findReferenceBlock.
PlaceAttempt ==
  /\ sitePc = "place"
  /\ LET currentBlock == siteWorld[pcall.pos]
     IN  IF currentBlock = pcall.blockName
           THEN /\ UNCHANGED siteWorld
                /\ PlaceBlockReturns(TRUE, FALSE, "already_correct")
           ELSE /\ \/ /\ currentBlock # "air" /\ ~isReplaceable(currentBlock)
                      /\ siteWorld' = [siteWorld EXCEPT ![pcall.pos] = "air"]
                   \/ UNCHANGED siteWorld
                /\ \/ PlaceBlockCatches(CannotReach)
                   \/ /\ pcall.blockName \notin siteItems
                      /\ PlaceBlockCatches(CannotEquip)
                   \/ /\ pcall.blockName \in siteItems
                      /\ LET refBlock == findReferenceBlockAt(siteWorld', SiteCell(pcall.pos))
                         IN  IF refBlock = NoBlock
                               THEN PlaceBlockCatches(NoReference)
                               ELSE /\ sitePc' = "call"
                                    /\ pcall' = [pcall EXCEPT !.ref = refBlock]
                                    /\ UNCHANGED <<siteIdx, siteCount>>
  /\ UNCHANGED <<siteTarget, siteItems, siteOptions, siteDug>>
  /\ UNCHANGED otherThanSite

\* The rest of the attempt, lines 821-839: bot.placeBlock against the
\* reference block and the verification.
PlaceCall ==
  /\ sitePc = "call"
  /\ \/ /\ siteWorld[pcall.pos] = "air" \/ isReplaceable(siteWorld[pcall.pos])
        /\ siteWorld' = [siteWorld EXCEPT ![pcall.pos] = pcall.blockName]
        /\ PlaceBlockReturns(TRUE, TRUE, "")
     \/ /\ UNCHANGED siteWorld
        /\ PlaceBlockCatches(NotPlaced)
  /\ UNCHANGED <<siteTarget, siteItems, siteOptions, siteDug>>
  /\ UNCHANGED otherThanSite

(***************************************************************************)
(* Part 9.  The reference-block search of BlockPlacer on its own           *)
(* (part_005, lines 868-1058): getPlacementStrategy, findReferenceBlock    *)
(* over the six neighbours of a cell, and isValidSolidSupport over the     *)
(* block names of the model.                                               *)
(***************************************************************************)
Directions == {"below", "east", "west", "south", "north", "above"}

\* The block names isValidSolidSupport is applied to.
SupportNames ==
  {"air", "dirt", "clay", "stone", "torch", "bedrock", "snow_block", "snow",
   "grass_block", "grass", "oak_leaves", "oak_planks", "oak_stairs", "iron_ore",
   "stone_slab", "oak_door", "ladder", "oak_log"}

\* The blocks placed, with the half property of the blueprint.
PlacedBlocks == {"clay", "ladder", "stone_slab"}
Halves == {"top", "bottom"}

\* getPlacementStrategy, lines 868-929, for the blocks of PlacedBlocks.
getPlacementStrategy(blockName, half) ==
  IF blockName = "stone_slab"
    THEN [type |-> "slab", wallMounted |-> FALSE,
          preferredFace |-> IF half = "top" THEN "top" ELSE "bottom"]
  ELSE IF blockName = "ladder"
    THEN [type |-> "wall_mounted", wallMounted |-> TRUE, preferredFace |-> "side"]
  ELSE [type |-> "normal", wallMounted |-> FALSE, preferredFace |-> "null"]

\* The search order of findReferenceBlock, lines 939-967.
searchOrderOf(strategy) ==
  IF strategy.wallMounted \/ strategy.preferredFace = "side"
    THEN <<"east", "west", "south", "north", "below">>
  ELSE IF strategy.preferredFace = "top"
    THEN <<"above", "below">>
  ELSE <<"below", "east", "west", "south", "north", "above">>

\* findReferenceBlock, lines 935-986, over the blocks of the six neighbours:
\* the direction of the block returned, "none" for null.
findReferenceBlockFor(neighbours, strategy) ==
  LET order == searchOrderOf(strategy)
      found == {i \in DOMAIN order : isValidSolidSupport(neighbours[order[i]])}
  IN  IF found = {} THEN "none"
      ELSE order[CHOOSE i \in found : \A j \in found : i <= j]

RefIdle ==
  /\ refNeighbours = << >> /\ refPlaced = "none" /\ refHalf = "none"
  /\ refName = "none" /\ refPc = "idle" /\ refFound = "none" /\ refValid = FALSE

\* A cell with its six neighbours, a block to place and a block to classify.
RefInit ==
  /\ refNeighbours \in [Directions -> {"air", "stone"}]
  /\ refPlaced \in PlacedBlocks
  /\ refHalf \in Halves
  /\ refName \in SupportNames
  /\ refPc = "start" /\ refFound = "none" /\ refValid = FALSE

\* Steps 6 and 7 of placeBlock, lines 806-812.
FindReference ==
  /\ refPc = "start"
  /\ refFound' = findReferenceBlockFor(refNeighbours, getPlacementStrategy(refPlaced, refHalf))
  /\ refPc' = "found"
  /\ UNCHANGED <<refNeighbours, refPlaced, refHalf, refName, refValid>>
  /\ UNCHANGED otherThanRef

\* A call of isValidSolidSupport, line 979.
ClassifySupport ==
  /\ refPc = "start"
  /\ refValid' = isValidSolidSupport(refName)
  /\ refPc' = "classified"
  /\ UNCHANGED <<refNeighbours, refPlaced, refHalf, refName, refFound>>
  /\ UNCHANGED otherThanRef

(***************************************************************************)
(* Part 10.  Access to a station: FurnaceManager.ensureFurnaceAccess with  *)
(* navigateToFurnace and placeFurnace (utils/furnaceManager.js, lines      *)
(* 20-246) and ensureCraftingTableAccess with navigateToCraftingTable and  *)
(* placeCraftingTable (part_008, lines 14-294), which have the same        *)
(* structure.  Distances are counted in tenths of a block.                 *)
(***************************************************************************)
\* The reach of lines 54 and 51 (4.5 blocks), the attempts of the navigation
\* (lines 37 and 32) and the number of candidate positions (lines 163-174).
Reach == 45
NavAttempts == 2
NumPositions == 10

\* The distance from the bot to a block placed at one of the candidate
\* positions, which lie at most two blocks from the bot, is at most this.
PlaceRadius == 32

\* The distances the bot may be at from a station.
Distances == {20, 45, 46, 300}

withinReachAlways(distance) == TRUE
withinReach(distance) == distance <= Reach

StationIdle ==
  /\ stKind = "none" /\ stExisting = FALSE /\ stHeld = FALSE
  /\ stPc = "idle" /\ stAttempt = 0 /\ stDist = 0 /\ stPos = 0
  /\ stNavFailed = FALSE /\ stReached = FALSE /\ stPlaced = FALSE
  /\ stReason = ""

\* The call of ensureFurnaceAccess or of ensureCraftingTableAccess: whether
\* findBlock finds a station within 32 blocks, and whether the bot holds one.
StationInit ==
  /\ stKind \in {"furnace", "crafting_table"}
  /\ stExisting \in BOOLEAN
  /\ stHeld \in BOOLEAN
  /\ stPc = "idle" /\ stAttempt = 0 /\ stDist = 0 /\ stPos = 0
  /\ stNavFailed = FALSE /\ stReached = FALSE /\ stPlaced = FALSE
  /\ stReason = ""

\* ensureFurnaceAccess, lines 225-231, findAndNavigateToCraftingTable,
\* lines 78-83: the search for an existing station.
EnsureStationAccess ==
  /\ stPc = "idle"
  /\ IF stExisting
       THEN stPc' = "navigate" /\ stAttempt' = 1
       ELSE stPc' = "place" /\ UNCHANGED stAttempt
  /\ UNCHANGED <<stKind, stExisting, stHeld, stDist, stPos, stNavFailed, stReached,
                 stPlaced, stReason>>
  /\ UNCHANGED otherThanStation

\* One attempt of navigateToFurnace, lines 37-73, or of
\* navigateToCraftingTable, lines 32-72: goto settles or throws, and the bot
\* is at some distance from the station.
NavigateToStation ==
  /\ stPc = "navigate"
  /\ \E distance \in Distances, thrown \in BOOLEAN :
       /\ stDist' = distance
       /\ IF ~thrown /\ withinReach(distance)
            THEN /\ stPc' = "returned" /\ stReached' = TRUE
                 /\ UNCHANGED <<stAttempt, stNavFailed>>
            ELSE IF stAttempt < NavAttempts
            THEN /\ stAttempt' = stAttempt + 1
                 /\ UNCHANGED <<stPc, stReached, stNavFailed>>
            ELSE /\ stPc' = "place" /\ stNavFailed' = TRUE
                 /\ UNCHANGED <<stAttempt, stReached>>
  /\ UNCHANGED <<stKind, stExisting, stHeld, stPos, stPlaced, stReason>>
  /\ UNCHANGED otherThanStation

\* The head of placeFurnace, lines 148-160, and of placeCraftingTable, lines
\* 187-199: the station is crafted when none is held; the crafting may throw.
CraftStation ==
  /\ stPc = "place"
  /\ IF stHeld
       THEN /\ stPc' = "positions" /\ stPos' = 1
            /\ UNCHANGED <<stHeld, stReason>>
       ELSE \/ /\ stHeld' = TRUE
               /\ stPc' = "positions" /\ stPos' = 1
               /\ UNCHANGED stReason
            \/ /\ stPc' = "thrown" /\ stReason' = "craft"
               /\ UNCHANGED <<stHeld, stPos>>
  /\ UNCHANGED <<stKind, stExisting, stDist, stAttempt, stNavFailed, stReached, stPlaced>>
  /\ UNCHANGED otherThanStation

\* One pass of the loop over the positions, lines 178-203 and 219-244: the
\* position is skipped, or the placement throws, or the station is placed.
TryPosition ==
  /\ stPc = "positions"
  /\ IF stPos > NumPositions
       THEN /\ stPc' = "thrown" /\ stReason' = "no position"
            /\ UNCHANGED <<stPos, stPlaced, stHeld>>
       ELSE \/ /\ stPos' = stPos + 1
               /\ UNCHANGED <<stPc, stPlaced, stHeld, stReason>>
            \/ /\ stPlaced' = TRUE /\ stHeld' = FALSE
               /\ stPc' = "find"
               /\ UNCHANGED <<stPos, stReason>>
  /\ UNCHANGED <<stKind, stExisting, stDist, stAttempt, stNavFailed, stReached>>
  /\ UNCHANGED otherThanStation

\* The tail of placeFurnace, lines 205-221, and of placeCraftingTable, lines
\* 250-265, with the return of ensureCraftingTableAccess, lines 274-288:
\* findBlock within 5 blocks finds the nearest station, the one just placed,
\* or finds none.
FindPlacedStation ==
  /\ stPc = "find"
  /\ \/ \E distance \in {d \in Distances : d <= PlaceRadius} :
          /\ stDist' = distance
          /\ stPc' = "returned"
          /\ UNCHANGED stReason
     \/ /\ stPc' = "thrown" /\ stReason' = "not found"
        /\ UNCHANGED stDist
  /\ UNCHANGED <<stKind, stExisting, stHeld, stAttempt, stPos, stNavFailed, stReached,
                 stPlaced>>
  /\ UNCHANGED otherThanStation

(***************************************************************************)
(* Part 11.  Combat: fight, equipWeapon and attackEntity                   *)
(* (actions/fight.js, lines 10-235).  One engagement with one target.      *)
(***************************************************************************)
\* The number of items of the inventory and the health of the target at the
\* start of the engagement.
MaxWeapons == 2
MaxHealth == 3

\* The runs of the attack loop that are followed after the hard cap.
MaxLateRuns == 2

\* The 30 s hard cap (line 123), the period of the attack loop (line 182)
\* and the number of attacks without damage that is tolerated (line 163).
HardCapMs == 30000
IntervalMs == 500
StuckLimit == 20

FightItems == {"netherite_axe", "golden_sword", "diamond_sword", "wooden_sword",
               "iron_pickaxe", "bread"}

\* bot.inventory.items(): the items in the order of their slots.
InventoryOrders(n) ==
  {s \in UNION {[1..k -> FightItems] : k \in 0..n} :
     \A i, j \in DOMAIN s : i # j => s[i] # s[j]}

\* Lines 196-198: the items whose name contains 'sword' or 'axe'.
isWeapon(name) == Includes(name, "sword") \/ Includes(name, "axe")
weaponsOf(items) == SelectSeq(items, isWeapon)

\* Line 206.
materialOrder == <<"netherite", "diamond", "iron", "stone", "wooden", "golden">>

\* Lines 215-220: the bonus of the first material the name contains.
RECURSIVE materialBonus(_, _)
materialBonus(name, i) ==
  IF i > Len(materialOrder) THEN 0
  ELSE IF Includes(name, materialOrder[i])
       THEN (Len(materialOrder) - (i - 1)) * 10
       ELSE materialBonus(name, i + 1)

\* Lines 213-220.
weaponScore(name) ==
  (IF Includes(name, "sword") THEN 100 ELSE 50) + materialBonus(name, 1)

\* The loop of lines 211-226 from weapon i on: a weapon replaces the best
\* one only when its score is strictly greater.
RECURSIVE bestWeaponFrom(_, _, _, _)
bestWeaponFrom(weapons, i, bestWeapon, bestScore) ==
  IF i > Len(weapons) THEN bestWeapon
  ELSE IF weaponScore(weapons[i]) > bestScore
       THEN bestWeaponFrom(weapons, i + 1, weapons[i], weaponScore(weapons[i]))
       ELSE bestWeaponFrom(weapons, i + 1, bestWeapon, bestScore)

\* equipWeapon, lines 195-235: the item handed to bot.equip, "none" when no
\* weapon is held (line 200).
equipWeapon(items) ==
  IF Len(weaponsOf(items)) = 0 THEN "none"
  ELSE bestWeaponFrom(weaponsOf(items), 1, weaponsOf(items)[1], -1)

FightIdle ==
  /\ fInventory = << >> /\ fEquipped = "none" /\ fPc = "idle"
  /\ fResult = "none" /\ fInterval = FALSE /\ fTimer = FALSE
  /\ fTick = 0 /\ fStuck = 0 /\ fHealth = 0 /\ fLastHealth = 0
  /\ fValid = FALSE /\ fLate = FALSE

\* fight was called, line 10.
FightInit ==
  /\ fInventory \in InventoryOrders(MaxWeapons)
  /\ fEquipped = "none" /\ fPc = "fight"
  /\ fResult = "none" /\ fInterval = FALSE /\ fTimer = FALSE
  /\ fTick = 0 /\ fStuck = 0 /\ fHealth = MaxHealth /\ fLastHealth = 0
  /\ fValid = TRUE /\ fLate = FALSE

\* resolve and reject of the promise of line 118: the first one settles it.
settleAttack(result) == IF fResult = "pending" THEN result ELSE fResult

\* fight, line 16: await equipWeapon(bot).
EquipWeapon ==
  /\ fPc = "fight"
  /\ fEquipped' = equipWeapon(fInventory)
  /\ fPc' = "search"
  /\ UNCHANGED <<fInventory, fResult, fInterval, fTimer, fTick, fStuck, fHealth,
                 fLastHealth, fValid, fLate>>
  /\ UNCHANGED otherThanFight

\* fight, lines 25-30: findNearestMob finds no target and the loop ends.
NoTargetFound ==
  /\ fPc = "search"
  /\ fPc' = "done"
  /\ UNCHANGED <<fInventory, fEquipped, fResult, fInterval, fTimer, fTick, fStuck,
                 fHealth, fLastHealth, fValid, fLate>>
  /\ UNCHANGED otherThanFight

\* attackEntity up to its first suspension, lines 117-181: the timeout and
\* the interval are armed.
AttackEntity ==
  /\ fPc = "search"
  /\ fPc' = "attack"
  /\ fResult' = "pending"
  /\ fTimer' = TRUE
  /\ fInterval' = TRUE
  /\ fLastHealth' = fHealth
  /\ fStuck' = 0
  /\ fTick' = 0
  /\ UNCHANGED <<fInventory, fEquipped, fHealth, fValid, fLate>>
  /\ UNCHANGED otherThanFight

\* The callback of the timeout, lines 120-123: it clears the goal and
\* rejects; the interval is left armed.
AttackTimeout ==
  /\ fTimer
  /\ fTick + IntervalMs >= HardCapMs
  /\ fTimer' = FALSE
  /\ fResult' = settleAttack("timeout")
  /\ UNCHANGED <<fInventory, fEquipped, fPc, fInterval, fTick, fStuck, fHealth,
                 fLastHealth, fValid, fLate>>
  /\ UNCHANGED otherThanFight

\* The target dies or leaves: entity.isValid becomes false.
EntityGone ==
  /\ fPc = "attack" /\ fValid
  /\ fValid' = FALSE
  /\ UNCHANGED <<fInventory, fEquipped, fPc, fResult, fInterval, fTimer, fTick,
                 fStuck, fHealth, fLastHealth, fLate>>
  /\ UNCHANGED otherThanFight

\* One run of the callback of the interval, lines 130-180.  The timeout,
\* armed first, runs before the callback that is due at the same instant.
AttackLoop ==
  /\ fInterval
  /\ ~(fTimer /\ fTick + IntervalMs >= HardCapMs)
  /\ fTick + IntervalMs <= HardCapMs + MaxLateRuns * IntervalMs
  /\ fTick' = fTick + IntervalMs
  /\ \/ \* lines 131-137: the target is gone
        /\ ~fValid
        /\ fInterval' = FALSE /\ fTimer' = FALSE
        /\ fResult' = settleAttack("resolved")
        /\ UNCHANGED <<fStuck, fHealth, fLastHealth, fValid, fLate>>
     \/ \* lines 140-171: setGoal, or lookAt and attack, then the damage check
        /\ fValid
        /\ fLate' = (fLate \/ fResult # "pending")
        /\ \E near \in BOOLEAN, hit \in BOOLEAN :
             LET health == IF near /\ hit /\ fHealth > 1 THEN fHealth - 1 ELSE fHealth
                 stuckCount == IF health < fLastHealth THEN 0 ELSE fStuck + 1 IN
             /\ fHealth' = health
             /\ fLastHealth' = IF health < fLastHealth THEN health ELSE fLastHealth
             /\ fStuck' = stuckCount
             /\ IF stuckCount > StuckLimit
                THEN /\ fInterval' = FALSE /\ fTimer' = FALSE
                     /\ fResult' = settleAttack("stuck")
                ELSE UNCHANGED <<fInterval, fTimer, fResult>>
        /\ UNCHANGED fValid
     \/ \* lines 172-180: lookAt or attack throws
        /\ fValid
        /\ fLate' = (fLate \/ fResult # "pending")
        /\ \/ /\ fValid' = FALSE
              /\ fInterval' = FALSE /\ fTimer' = FALSE
              /\ fResult' = settleAttack("resolved")
           \/ UNCHANGED <<fValid, fInterval, fTimer, fResult>>
        /\ UNCHANGED <<fStuck, fHealth, fLastHealth>>
  /\ UNCHANGED <<fInventory, fEquipped, fPc>>
  /\ UNCHANGED otherThanFight

(***************************************************************************)
(* Part 12.  The counters of BuildExecutor.buildStructure                  *)
(* (utils/buildExecutor.js, lines 179-336).  The chat built-in 'build'     *)
(* (server.js 290-296) and the build_structure action (server.js 435-440)  *)
(* call buildStructure on the one module-level executor, and neither       *)
(* waits for a build in progress: two calls are followed here.             *)
(***************************************************************************)
\* The voxels of the blueprint.
CountVoxels == 2

BuildCalls == {1, 2}

\* Lines 180-188: the counters of a new this.currentBuild.
NewCounters == [placedBlocks |-> 0, failedBlocks |-> 0, skippedBlocks |-> 0]

NoCall12 == [pc |-> "idle", i |-> 0, scaffolding |-> FALSE, status |-> "none",
             counted |-> 0]

CountIdle ==
  /\ cntCalls = << >>
  /\ cntBuild = << >>
  /\ cntAborted = FALSE

\* No call of buildStructure has been made.
CountInit ==
  /\ cntCalls = [c \in BuildCalls |-> NoCall12]
  /\ cntBuild = NewCounters
  /\ cntAborted = FALSE

cntReturn(c, call, status) ==
  cntCalls' = [cntCalls EXCEPT ![c] = [call EXCEPT !.pc = "done", !.status = status]]

\* buildStructure, lines 179-214, past the prompts: the flag and the
\* counters are reset; prepareGroundArea and clearBuildArea are awaited.
StartBuild(c) ==
  /\ cntCalls[c].pc = "idle"
  /\ \E scaffolding \in BOOLEAN :
       cntCalls' = [cntCalls EXCEPT ![c] =
                      [NoCall12 EXCEPT !.pc = "loop", !.scaffolding = scaffolding]]
  /\ cntAborted' = FALSE
  /\ cntBuild' = NewCounters
  /\ UNCHANGED otherThanCount

\* abortBuild on the executor while a build is in progress.
AbortCounted ==
  /\ \E c \in BuildCalls : cntCalls[c].pc \in {"loop", "has", "place", "retry"}
  /\ ~cntAborted
  /\ cntAborted' = TRUE
  /\ UNCHANGED <<cntCalls, cntBuild>>
  /\ UNCHANGED otherThanCount

\* Lines 217-244 and 307-324: the head of a turn of the loop up to the
\* awaited ensureBlockAvailable, or the return after the loop.
LoopTurn(c) ==
  LET call == cntCalls[c] IN
  /\ call.pc = "loop"
  /\ IF call.i >= CountVoxels \/ cntAborted
       THEN cntReturn(c, call, "completed")
       ELSE cntCalls' = [cntCalls EXCEPT ![c].pc = "has"]
  /\ UNCHANGED <<cntBuild, cntAborted>>
  /\ UNCHANGED otherThanCount

\* Lines 244-274: the item is missing, the block in the world is already
\* the one wanted, or placeBlock is called and awaited.
BlockAvailable(c) ==
  LET call == cntCalls[c] IN
  /\ call.pc = "has"
  /\ \/ /\ cntBuild' = [cntBuild EXCEPT !.skippedBlocks = @ + 1]
        /\ cntReturn(c, [call EXCEPT !.counted = @ + 1], "missing_items")
     \/ /\ cntBuild' = [cntBuild EXCEPT !.skippedBlocks = @ + 1]
        /\ cntCalls' = [cntCalls EXCEPT ![c].pc = "loop", ![c].i = @ + 1,
                                        ![c].counted = @ + 1]
     \/ /\ cntCalls' = [cntCalls EXCEPT ![c].pc = "place"]
        /\ UNCHANGED cntBuild
  /\ UNCHANGED cntAborted
  /\ UNCHANGED otherThanCount

\* Lines 276-305 and 326-336: placeBlock settles.
PlaceSettles(c) ==
  LET call == cntCalls[c] IN
  /\ call.pc = "place"
  /\ \/ \E placed \in BOOLEAN :
          /\ cntBuild' = IF placed THEN [cntBuild EXCEPT !.placedBlocks = @ + 1]
                         ELSE [cntBuild EXCEPT !.skippedBlocks = @ + 1]
          /\ cntCalls' = [cntCalls EXCEPT ![c].pc = "loop", ![c].i = @ + 1,
                                          ![c].counted = @ + 1]
     \/ \E noReference \in BOOLEAN :
          /\ cntBuild' = [cntBuild EXCEPT !.failedBlocks = @ + 1]
          /\ IF call.scaffolding /\ noReference
               THEN cntCalls' = [cntCalls EXCEPT ![c].pc = "retry",
                                                 ![c].counted = @ + 1]
               ELSE cntCalls' = [cntCalls EXCEPT ![c].pc = "loop", ![c].i = @ + 1,
                                                 ![c].counted = @ + 1]
     \/ /\ cntReturn(c, call, "error")
        /\ UNCHANGED cntBuild
  /\ UNCHANGED cntAborted
  /\ UNCHANGED otherThanCount

\* Lines 291-300: placeScaffolding and the second placeBlock settle.
RetrySettles(c) ==
  LET call == cntCalls[c] IN
  /\ call.pc = "retry"
  /\ \/ \E success \in BOOLEAN :
          /\ cntBuild' = IF success
                           THEN [cntBuild EXCEPT !.placedBlocks = @ + 1,
                                                 !.failedBlocks = @ - 1]
                           ELSE cntBuild
          /\ cntCalls' = [cntCalls EXCEPT ![c].pc = "loop", ![c].i = @ + 1]
     \/ /\ cntReturn(c, call, "error")
        /\ UNCHANGED cntBuild
  /\ UNCHANGED cntAborted
  /\ UNCHANGED otherThanCount

(***************************************************************************)
(* The specifications: one per part, the other parts at rest.              *)
(***************************************************************************)
CrfIdle ==
  /\ recipes = << >> /\ inv = << >> /\ tableNear = FALSE
  /\ goal = << >> /\ stack = <<>> /\ acted = FALSE /\ shortMined = FALSE
  /\ cstatus = "idle"
ChnIdle == cinv = << >> /\ cstack = << >> /\ cresult = "idle"

Init == SrvInit /\ CrfIdle /\ ChnIdle /\ SmtIdle /\ MineIdle /\ BldIdle /\ WaitIdle /\ SiteIdle /\ RefIdle /\ StationIdle /\ FightIdle /\ CountIdle

Next ==
  \/ ChatRejected
  \/ \E t \in Tasks : ChatCommand(t)
  \/ \E t \in Tasks : ParseReturn(t)
  \/ \E t \in Tasks : ActionResolve(t)
  \/ \E t \in Tasks : LoopNext(t)
  \/ \E t \in Tasks : RestCommand(t)
  \/ ChatLoadBlueprint
  \/ \E t \in Tasks : ChatGather(t)
  \/ \E t \in Tasks : GatherDone(t)
  \/ \E t \in Tasks : ChatBuild(t)
  \/ PromptAnswer
  \/ \E t \in Tasks : PromptTimeout(t)
  \/ \E t \in Tasks : GroundDone(t)
  \/ \E t \in Tasks : ClearDone(t)
  \/ \E t \in Tasks : PlaceStep(t)
  \/ \E t \in Tasks : PlaceResolve(t)
  \/ ExecutorAbort
  \/ AbortBuildAction
  \/ ChatStop

Spec == Init /\ [][Next]_vars

InitCraft == SrvInit /\ CrfInit /\ ChnIdle /\ SmtIdle /\ MineIdle /\ BldIdle /\ WaitIdle /\ SiteIdle /\ RefIdle /\ StationIdle /\ FightIdle /\ CountIdle

NextCraft ==
  \/ CraftItem
  \/ GatherHave
  \/ GatherCraft
  \/ GatherMine
  \/ GatherEnd
  \/ TableSkip
  \/ TableFound
  \/ TableHeld
  \/ TablePlanks
  \/ TableCraft
  \/ TablePlace
  \/ BotRecipes
  \/ CraftOnce
  \/ CraftReturn

SpecCraft == InitCraft /\ [][NextCraft]_vars

InitChain == SrvInit /\ CrfIdle /\ ChnInit /\ SmtIdle /\ MineIdle /\ BldIdle /\ WaitIdle /\ SiteIdle /\ RefIdle /\ StationIdle /\ FightIdle /\ CountIdle

NextChain ==
  \/ ExecuteCraftingChain
  \/ GatherItemMine
  \/ GatherItemCraft
  \/ GatherItemUnknown
  \/ ChainCraftItem

SpecChain == InitChain /\ [][NextChain]_vars

InitSmelt == SrvInit /\ CrfIdle /\ ChnIdle /\ SmtInit /\ MineIdle /\ BldIdle /\ WaitIdle /\ SiteIdle /\ RefIdle /\ StationIdle /\ FightIdle /\ CountIdle

NextSmelt ==
  \/ SmeltItem
  \/ EnsureFurnaceAccess
  \/ EnsureInputMaterials
  \/ ReturnToFurnace
  \/ EnsureFuel
  \/ GatherFuelCall
  \/ GatherFuelMine
  \/ GatherFuelCraft
  \/ GatherFuelBack
  \/ GatherFuelSmelt
  \/ GatherFuelDone
  \/ LoadFurnace
  \/ FinishSmelting

SpecSmelt == InitSmelt /\ [][NextSmelt]_vars

InitMine == SrvInit /\ CrfIdle /\ ChnIdle /\ SmtIdle /\ MineInit /\ BldIdle /\ WaitIdle /\ SiteIdle /\ RefIdle /\ StationIdle /\ FightIdle /\ CountIdle

NextMine ==
  \/ \E b \in MineBlocks, n \in 1..MaxMineCount : Mine(b, n)
  \/ FindBlock
  \/ EquipBestToolForBlock
  \/ Goto
  \/ DigSettles
  \/ \E item \in MineItems : CollectItem(item)

SpecMine == InitMine /\ [][NextMine]_vars

InitOrder == SrvInit /\ CrfIdle /\ ChnIdle /\ SmtIdle /\ MineIdle /\ BldInit /\ WaitIdle /\ SiteIdle /\ RefIdle /\ StationIdle /\ FightIdle /\ CountIdle

NextOrder ==
  \/ BuildStructure
  \/ BuildLoop
  \/ PlaceBlock

SpecOrder == InitOrder /\ [][NextOrder]_vars

InitWait == SrvInit /\ CrfIdle /\ ChnIdle /\ SmtIdle /\ MineIdle /\ BldIdle /\ WaitInit /\ SiteIdle /\ RefIdle /\ StationIdle /\ FightIdle /\ CountIdle

NextWait ==
  \/ \E n \in 1..MaxExpected : WaitForSmelting(n)
  \/ \E c \in 0..MaxExpected : FurnaceUpdate(c)
  \/ MaxTimeoutFires
  \/ UpdateTimeoutFires
  \/ CompletionTimeoutFires
  \/ \E t \in ({wnow + Tick} \cup PendingTimers) \cap Instants : TimePasses(t)

SpecWait == InitWait /\ [][NextWait]_vars

InitSite == SrvInit /\ CrfIdle /\ ChnIdle /\ SmtIdle /\ MineIdle /\ BldIdle /\ WaitIdle /\ SiteInit /\ RefIdle /\ StationIdle /\ FightIdle /\ CountIdle

NextSite ==
  \/ SiteBuildStructure
  \/ PrepareGroundArea
  \/ ClearBuildArea
  \/ SiteLoop
  \/ PlaceAttempt
  \/ PlaceCall

SpecSite == InitSite /\ [][NextSite]_vars

InitRef ==
  /\ SrvInit /\ CrfIdle /\ ChnIdle /\ SmtIdle /\ MineIdle /\ BldIdle /\ WaitIdle /\ SiteIdle
  /\ RefInit /\ StationIdle /\ FightIdle /\ CountIdle

NextRef ==
  \/ FindReference
  \/ ClassifySupport

SpecRef == InitRef /\ [][NextRef]_vars

InitStation ==
  /\ SrvInit /\ CrfIdle /\ ChnIdle /\ SmtIdle /\ MineIdle /\ BldIdle /\ WaitIdle /\ SiteIdle
  /\ RefIdle /\ StationInit /\ FightIdle /\ CountIdle

NextStation ==
  \/ EnsureStationAccess
  \/ NavigateToStation
  \/ CraftStation
  \/ TryPosition
  \/ FindPlacedStation

SpecStation == InitStation /\ [][NextStation]_vars

InitFight ==
  /\ SrvInit /\ CrfIdle /\ ChnIdle /\ SmtIdle /\ MineIdle /\ BldIdle /\ WaitIdle /\ SiteIdle
  /\ RefIdle /\ StationIdle /\ FightInit /\ CountIdle

NextFight ==
  \/ EquipWeapon
  \/ NoTargetFound
  \/ AttackEntity
  \/ AttackTimeout
  \/ EntityGone
  \/ AttackLoop

SpecFight == InitFight /\ [][NextFight]_vars

InitCount ==
  /\ SrvInit /\ CrfIdle /\ ChnIdle /\ SmtIdle /\ MineIdle /\ BldIdle /\ WaitIdle /\ SiteIdle
  /\ RefIdle /\ StationIdle /\ FightIdle /\ CountInit

NextCount ==
  \/ \E c \in BuildCalls : StartBuild(c)
  \/ AbortCounted
  \/ \E c \in BuildCalls : LoopTurn(c)
  \/ \E c \in BuildCalls : BlockAvailable(c)
  \/ \E c \in BuildCalls : PlaceSettles(c)
  \/ \E c \in BuildCalls : RetrySettles(c)

SpecCount == InitCount /\ [][NextCount]_vars

(***************************************************************************)
(* Properties of the command front end and of the BuildExecutor.           *)
(***************************************************************************)

\* C1: at most one command executes at a time; a command arriving while
\* another has not finished is rejected as busy and starts nothing.
OneCommandAtATime == Cardinality({t \in Tasks : Executing(t)}) <= 1

\* C2: once abortBuild() has returned true while buildStructure is in progress
\* (prompting, preparing the ground, clearing or placing), that build starts no
\* further placement of a blueprint voxel.
NoPlacementAfterAbort ==
  [][\A t \in Tasks :
       (tasks[t].abortSeen /\ InBuild(tasks[t]) /\ tasks[t].pc # "placing")
         => tasks'[t].pc # "placing"]_vars

\* C3: a build that left its placement loop on the abort flag, with voxels
\* still unprocessed, does not return success = true with status 'completed'.
AbortedIsNotCompleted ==
  \A t \in Tasks :
    tasks[t].byAbort => ~(tasks[t].result.success /\ tasks[t].result.status = "completed")

\* C4: a chat `stop` is honoured even while a command is being processed, and a
\* `stop` or an abortBuild action issued while buildStructure runs sets the
\* abort flag of the executor that runs the build.
CancelReachesBuild ==
  [][/\ ChatStop => lastOut' = "stopped"
     /\ ((ChatStop \/ AbortBuildAction) /\ BuildRunning) => aborted']_vars

\* C5: the steps of a multi-step command start in list order, each one only
\* after its predecessor has settled; never two of them in progress at once.
StepsStrictlySequential ==
  \A t \in Tasks :
    tasks[t].kind = "ai" =>
      /\ \A j \in 1..(Len(tasks[t].log) - 1) : tasks[t].log[j] \in {"ok", "fail", "throw"}
      /\ Len(tasks[t].log) <= tasks[t].n
      /\ (tasks[t].pc \in {"action", "prompt", "ground", "clear", "place", "placing"})
            <=> (tasks[t].log # <<>> /\ tasks[t].log[Len(tasks[t].log)] = "run")

SecondStepRunning ==
  \E t \in Tasks :
    /\ tasks[t].kind = "ai" /\ tasks[t].multi
    /\ Len(tasks[t].log) >= 2
    /\ tasks[t].log[Len(tasks[t].log)] = "run"

\* C6: once a step of a multi-step command has failed or thrown, the command
\* is over: no later step is started, and the steps completed before it stay
\* completed (nothing reverts them).
HaltsOnFirstFailure ==
  \A t \in Tasks :
    (tasks[t].kind = "ai" /\ tasks[t].multi /\ tasks[t].log # <<>>) =>
      /\ \A j \in 1..(Len(tasks[t].log) - 1) : tasks[t].log[j] = "ok"
      /\ tasks[t].log[Len(tasks[t].log)] \in {"fail", "throw"} => tasks[t].pc = "done"

HaltedWithStepsLeft ==
  \E t \in Tasks :
    /\ tasks[t].kind = "ai" /\ tasks[t].multi /\ tasks[t].pc = "done"
    /\ Len(tasks[t].log) < tasks[t].n
    /\ tasks[t].log[Len(tasks[t].log)] \in {"fail", "throw"}

(***************************************************************************)
(* Properties of the crafter and of the CraftingChain.                     *)
(***************************************************************************)

\* C7: the craftItem / gatherMaterial recursion detects cycles of the recipe
\* table: no item is being resolved while the same item is already on the
\* stack of resolutions in flight.
NoItemTwiceOnStack ==
  \A a, b \in 1..Len(stack) : a # b => stack[a].item # stack[b].item

\* C8: executeCraftingChain terminates for every item: no call is entered
\* for the item, the quantity and the inventory of a call that is still in
\* flight (such a call would repeat itself for ever).
ChainNeverReenters ==
  \A a, b \in 1..Len(cstack) :
    a < b => ~(/\ cstack[a].item = cstack[b].item
               /\ cstack[a].quantity = cstack[b].quantity
               /\ cstack[a].held = cstack[b].held)

\* C9: craftItem(item, count) called with at least count of the item in the
\* inventory makes no craft, mine or table-placement call.
HeldGoalIsNoOp ==
  (cstatus # "idle" /\ goal.held >= goal.count) => ~acted

\* C10: when a craftItem call reaches its craft loop, the inventory holds
\* ingredient_count * count of every ingredient of the recipe: crafting one
\* ingredient does not use up another that was already checked.  (The runs
\* in which mine() delivered less than asked are left aside.)
LoopStartsFullyStocked ==
  (CrfRunning("craft") /\ Top.i = 0 /\ ~shortMined) =>
    \A j \in 1..Len(recipes[Top.item].ing) :
      inv[recipes[Top.item].ing[j].item] >= recipes[Top.item].ing[j].n * Top.count

(***************************************************************************)
(* Properties of the SmeltingManager.                                      *)
(***************************************************************************)

\* C11: when the input of the smelt is also the fuel that will be chosen
\* (charcoal from oak_log, burning oak_log), the units counted as input are
\* not counted again as fuel: before the furnace is loaded the inventory
\* holds the n inputs plus the fuel needed for n.  (Runs in which a mine or
\* craft call got less than it asked for are left aside.)
InputNotCountedAsFuel ==
  (/\ SmeltAt("perform") /\ ~sshort
   /\ STop.input = "oak_log" /\ getBestAvailableFuel(sinv) = "oak_log") =>
    sinv["oak_log"] >= STop.amount + calculateFuelNeeded("oak_log", STop.amount)

\* C12: when ensureFuel(n) has returned and every mine and craft call got
\* what it asked for, some held fuel f suffices for the n items:
\* count(f) >= calculateFuelNeeded(f, n).
EnsureFuelSuffices ==
  (SmeltAt("back2") /\ ~sshort) =>
    \E i \in 1..Len(FUEL_PRIORITY) :
      /\ sinv[FUEL_PRIORITY[i]] > 0
      /\ sinv[FUEL_PRIORITY[i]] >= calculateFuelNeeded(FUEL_PRIORITY[i], STop.amount)

\* C13: the amount calculateFuelNeeded(f, n) that ensureFuel computed is
\* ceil(200 * n / ticks(f)), and it is the least k for which
\* calculateSmeltableItems(f, k) >= n.
FuelNeededIsLeast ==
  \A i \in 1..Len(sstack) :
    sstack[i].fuel # "" =>
      LET k == sstack[i].need
          n == sstack[i].amount
          ticks == getFuelValue(sstack[i].fuel)
      IN  /\ k >= 1
          /\ k * ticks >= TicksPerItem * n
          /\ (k - 1) * ticks < TicksPerItem * n
          /\ calculateSmeltableItems(sstack[i].fuel, k) >= n
          /\ \A j \in 0..(k - 1) : calculateSmeltableItems(sstack[i].fuel, j) < n

ThreeLogsForFourItems ==
  \E i \in 1..Len(sstack) :
    /\ sstack[i].fuel = "oak_log" /\ sstack[i].amount = 4 /\ sstack[i].need = 3

\* C14: a mine request that ends before count blocks were mined (no block
\* found, navigation or dig failed) reports a failure outcome.
ShortMineReportsFailure ==
  (mpc = "done" /\ mresult.minedCount < mtask.count) => ~mresult.success

\* C15: bot.dig is never issued while no adequate tool for the block is held.
NoDigWithoutAdequateTool ==
  mpc = "dig" => hasAdequateTool(minv, mtask.block)

\* C16: a block that no tool tier can break, or that has no entry in
\* BLOCK_TOOL_REQUIREMENTS, is never dug.
NoDigWithoutRequirementEntry ==
  mpc = "dig" => HasRequirementEntry(mtask.block)

\* C17: hasAdequateTool is monotone in the inventory: when it reports
\* hasTooling for a block, it still does after any item is added.
AdequateToolMonotone ==
  [][\A b \in MineBlocks :
       (hasAdequateTool(minv, b) /\ minv \subseteq minv')
         => hasAdequateTool(minv', b)]_vars

LowerTierToolAdded ==
  /\ {"iron_pickaxe", "wooden_pickaxe", "cobblestone"} \subseteq minv
  /\ hasAdequateTool(minv, "iron_ore")

\* C18: whatever layerByLayer is, the voxels the build loop takes up are in
\* (y, then x, then z) order; in particular y never decreases from one voxel
\* to the next.
YNeverDecreases ==
  \A i \in 1..(Len(taken) - 1) : taken[i].y <= taken[i + 1].y

\* C19: in the sorted order on solid ground, for a blueprint whose voxels all
\* hang together with the ground, and with no earlier voxel failed, a voxel
\* whose turn has come has a solid face-neighbour to place against.
SupportedAtItsTurn ==
  (/\ bpc = "place" /\ layerByLayer /\ Grounded(blueprint)
   /\ bcount.failed = 0 /\ world[CurrentBlock] = "air")
    => findReferenceBlock(world, CurrentBlock)

\* C20: a build over a world in which every voxel already matches (nothing
\* was dug or placed and every voxel holds its block) ends completed, with
\* nothing placed and nothing failed, whether or not the item is held.
MatchingWorldCompletes ==
  (/\ bpc = "done"
   /\ \A i \in 1..Len(blueprint) : world[blueprint[i]] = "stone"
   /\ ~digCalled /\ ~placeCalled /\ bcount.cleared = 0)
    => bret = "completed" /\ bcount.placed = 0 /\ bcount.failed = 0

\* C21: waitForSmelting settles at most once and never stays pending beyond
\* the 5-minute cap: while it is pending the cap's timer is set and not
\* overdue; once settled, it settled within the cap, no timer is still set
\* and the update listener is removed.
SettlesOnceWithinCap ==
  /\ wsettles <= 1
  /\ wstatus = "pending" =>
       /\ wsettles = 0
       /\ wtimers.max = MaxTimeoutMs /\ wnow <= MaxTimeoutMs
  /\ wstatus \in {"resolved", "rejected_timeout", "rejected_stalled"} =>
       /\ wsettles = 1
       /\ ~wlate
       /\ wtimers = NoTimers
       /\ ~wlistener

SettledAtTheCap ==
  /\ wstatus = "rejected_timeout" /\ wsettles = 1
  /\ wnow > MaxTimeoutMs

\* C22: while fewer than n items are out, the wait never stays pending for
\* more than 30 s after the last increase of the output count.
StallRejectedAfterThirtySeconds ==
  (wstatus = "pending" /\ wsmelted < wexpected) =>
    wstale <= UpdateTimeoutMs

\* C23: once the output count has reached n, the wait is never rejected; in
\* particular not when the last increase lies longer back than the
\* completion delay.
NoRejectionAfterCompletion ==
  (wsmelted >= wexpected /\ wstale > CompletionTimeoutMs) =>
    wstatus \notin {"rejected_timeout", "rejected_stalled"}

\* C24: a smeltItem('charcoal', k) call that gatherFuel started (every frame
\* above the first) never takes charcoal as its own fuel, neither in
\* ensureFuel nor when the furnace is loaded.
NestedSmeltBurnsNoCharcoal ==
  \A i \in 2..Len(sstack) :
    sstack[i].fuel # "charcoal" /\ sstack[i].burn # "charcoal"

\* C25: a craftItem call that gatherMaterial made for `needed` units of an
\* ingredient (every frame above the first) invokes the recipe at most
\* ceil(needed / k) times, k being the units one craft yields.
CraftsScaledByYield ==
  \A j \in 2..Len(stack) :
    stack[j].i <= CeilDiv(stack[j].count, recipes[stack[j].item].yield)

\* C26: the tool equipped for a block is a held tool of exactly the kind the
\* block requires, of the highest tier among the held tools of that kind.
BestToolIsOfRequiredKind ==
  mequipped # "" =>
    /\ mequipped \in minv
    /\ ToolKind(mequipped) = getRequiredToolTier(mtask.block).tool
    /\ \A t \in minv :
         ToolKind(t) = ToolKind(mequipped) => getTierScore(t) <= getTierScore(mequipped)

(***************************************************************************)
(* Properties of the build site.                                           *)
(***************************************************************************)

\* C27: after the scaffolding that follows a failure for a missing reference
\* block, exactly one further placement attempt is made on the target.
OneAttemptAfterScaffolding ==
  (/\ pcall.caller = "retry"
   /\ isValidSolidSupport(siteBlockAt(siteWorld, SiteCell(pcall.pos - 1))))
    => pcall.attempt <= 1

\* C28: clearBuildArea digs only cells of the blueprint box whose block is
\* not air and differs from the blueprint block of the cell.
ClearDigsOnlyMismatchesInBox ==
  \A d \in siteDug :
    /\ d.cell[2] \in BoxCells(SiteHeight)
    /\ d.name # "air"
    /\ d.name # d.targetName

AMismatchWasDug ==
  \E d \in siteDug : d.name \in {"dirt", "torch"} /\ d.targetName = "clay"

\* C29: a foundation cell that holds a valid solid support is left unchanged
\* by every step taken for the ground preparation.
ValidFoundationUntouched ==
  [][(/\ sitePc \in {"ground", "place", "call"}
      /\ sitePc = "ground" \/ pcall.caller = "ground"
      /\ isValidSolidSupport(siteWorld[-1]))
     => siteWorld'[-1] = siteWorld[-1]]_vars

\* C30: bot.placeBlock is called only against a face-neighbour of the target
\* cell that is a valid solid support when the call is made.
IsFaceNeighbour(a, b) ==
  LET Abs(n) == IF n < 0 THEN -n ELSE n
  IN  Abs(a[1] - b[1]) + Abs(a[2] - b[2]) + Abs(a[3] - b[3]) = 1

PlaceCallAgainstValidNeighbour ==
  sitePc = "call" =>
    /\ pcall.ref # NoBlock
    /\ IsFaceNeighbour(pcall.ref, SiteCell(pcall.pos))
    /\ isValidSolidSupport(siteBlockAt(siteWorld, pcall.ref))

\* A place call next to a block that is no valid support, against another
\* neighbour.
PlaceCallPastATorch ==
  /\ sitePc = "call" /\ pcall.pos = 0
  /\ siteWorld[1] = "torch"
  /\ pcall.ref = SiteCell(-1)

(***************************************************************************)
(* Properties of the reference-block search.                               *)
(***************************************************************************)

\* C31: whatever the placement strategy, a reference block is returned when
\* any one of the six neighbours is a valid solid support.
AnyValidNeighbourIsFound ==
  (/\ refPc = "found"
   /\ \E d \in Directions : isValidSolidSupport(refNeighbours[d]))
    => refFound # "none"

\* C32: isValidSolidSupport is true for the names of its whitelist and for
\* planks, logs and ores, and false for stairs, slabs, doors, ladders,
\* torches, leaves and snow layers.
SupportAgreesWithReference ==
  refPc = "classified" =>
    /\ refName \in validSolidBlocks \cup {"oak_planks", "oak_log", "iron_ore"} => refValid
    /\ refName \in {"oak_stairs", "stone_slab", "oak_door", "ladder", "torch",
                    "oak_leaves", "snow"} => ~refValid

(***************************************************************************)
(* Properties of the access to a station.                                  *)
(***************************************************************************)

PromptLive ==
  /\ currentPrompt # NoPrompt
  /\ tasks[currentPrompt.owner].pc = "prompt"
  /\ tasks[currentPrompt.owner].param = currentPrompt.param

\* C34: once a prompt was resolved, by an answer or by its timeout, no chat
\* message is consumed as a response to it.
ResolvedPromptConsumesNoMessage ==
  [][~(/\ currentPrompt # NoPrompt
       /\ ~PromptLive
       /\ currentPrompt' = NoPrompt)]_vars

\* C35: buildStructure returns 'cancelled' only from the prompts, where it
\* has made no step of the build: no ground preparation, no clearing and no
\* placement comes before the confirmation.
CancelledBeforeAnyBuildStep ==
  /\ [](\A t \in Tasks : tasks[t].pc \in {"ground", "clear", "place"} => tasks[t].bi >= 1)
  /\ [][\A t \in Tasks :
          (/\ tasks'[t].result.status = "cancelled"
           /\ tasks[t].result.status # "cancelled")
            => tasks[t].pc = "prompt" /\ tasks[t].bi = 0]_vars

ABuildWasCancelled ==
  \E t \in Tasks : tasks[t].pc = "done" /\ tasks[t].result.status = "cancelled"

(***************************************************************************)
(* Properties of combat.                                                   *)
(***************************************************************************)
heldSwords == {fInventory[i] : i \in {j \in DOMAIN fInventory : Includes(fInventory[j], "sword")}}
materialRank(name) ==
  CHOOSE i \in 1..Len(materialOrder) : Includes(name, materialOrder[i])

\* C36: whatever the order of the inventory, once equipWeapon has run and a
\* sword is held, the item equipped is a sword, and no held sword is of a
\* material that ranks higher; an axe is equipped only when no sword is held.
BestSwordIsEquipped ==
  (fPc \in {"search", "attack", "done"} /\ heldSwords # {}) =>
    /\ fEquipped \in heldSwords
    /\ \A s \in heldSwords : materialRank(fEquipped) <= materialRank(s)

\* C37: once the promise of attackEntity has settled, the attack loop makes
\* no further call of setGoal, lookAt or attack for the target.
NoCallAfterSettling == ~fLate

(***************************************************************************)
(* Properties of the counters of a build.                                  *)
(***************************************************************************)
countedSum == cntBuild.placedBlocks + cntBuild.failedBlocks + cntBuild.skippedBlocks

\* C38: while a call of buildStructure is in its loop, and when it has
\* returned, the sum of placedBlocks, failedBlocks and skippedBlocks is the
\* number of voxels the call has counted and no counter is negative; a call
\* that returns 'completed' without an abort has a sum of all the voxels.
CountersSumToProcessed ==
  \A c \in BuildCalls :
    LET call == cntCalls[c] IN
    /\ call.pc # "idle" =>
         /\ countedSum = call.counted
         /\ cntBuild.placedBlocks >= 0
         /\ cntBuild.failedBlocks >= 0
         /\ cntBuild.skippedBlocks >= 0
    /\ (call.pc = "done" /\ call.status = "completed" /\ ~cntAborted) =>
         countedSum = CountVoxels

(***************************************************************************)
(* Properties of processInGameCommand.                                     *)
(***************************************************************************)
InGameCommands == {t \in Tasks : tasks[t].kind = "ai" /\ Executing(t)}

\* C39: at most one invocation of processInGameCommand is active, and
\* isProcessing is true exactly while one is active: the flag is set in the
\* step that passes the busy check and reset on every way out.
OneInGameCommandAndFlagExact ==
  /\ Cardinality(InGameCommands) <= 1
  /\ isProcessing <=> InGameCommands # {}

CommandRejectedWhileOneIsActive ==
  /\ lastOut = "busy"
  /\ InGameCommands # {}
  /\ \E t \in Tasks : tasks[t].kind = "ai" /\ tasks[t].pc = "done"

\* C40: a multi-step command that has sent the completion line has no step
\* that failed: every step it started returned success.
CompletionOnlyAfterSuccess ==
  \A t \in Tasks :
    (/\ tasks[t].kind = "ai" /\ tasks[t].multi /\ tasks[t].pc = "done"
     /\ \E i \in DOMAIN tasks[t].said : tasks[t].said[i] = "completed")
      => \A i \in DOMAIN tasks[t].log : tasks[t].log[i] = "ok"

=============================================================================
